---- MODULE Spec2Model ----
(***************************************************************************)
(* A model of python-inspector: the PythonInputProvider and the way it is  *)
(* driven by the backtracking resolver (resolution.py, api.py), the        *)
(* file-based Cache and the HTTP fetch with its 429 backoff                *)
(* (utils_pypi.py), and the input validation of resolve_dependencies.      *)
(* The provider's own functions (find_matches, is_valid_version,           *)
(* get_dependencies and its memo), the handling of setup.py files, one     *)
(* PypiSimpleRepository and the phases of a resolution have a              *)
(* specification each, and so have the parsing of distribution filenames,  *)
(* the formatters of a resolution, the compatibility tags of an            *)
(* environment and the tasks of gather_version_data.  An awaited call      *)
(* yields what the called function returns; in gather_version_data a task  *)
(* is suspended at its requests.                                           *)
(*                                                                         *)
(* Versions are naturals ordered as PEP 440 orders them: 2k is the final   *)
(* release k, 2k-1 is a pre-release of k (so 3 is "2a1", 4 is "2"), and 0  *)
(* is the "0.0.0" of the synthetic candidate.                              *)
(***************************************************************************)
EXTENDS Integers, Sequences, FiniteSets, TLC

\* ------------------------------------------------------------------ bounds

\* The greatest version an index offers.
MaxVersion == 4

\* The greatest max_rounds a caller passes to resolve().
MaxRounds == 8

\* ------------------------------------------------------ versions, specifiers

Versions == 1..MaxVersion

\* packvers Version.is_prerelease
is_prerelease(v) == v % 2 = 1

Operators == {"==", ">=", "<="}

\* A specifier clause; a SpecifierSet is a set of clauses.
Clause(op, v) == [op |-> op, v |-> v]

\* packvers Specifier.prereleases: an inclusive operator on a pre-release
\* version allows pre-releases.
SpecifierPrereleases(c) == c.op \in {"==", ">=", "<="} /\ is_prerelease(c.v)

\* packvers SpecifierSet.prereleases: None (false) for an empty set.
SpecifierSetPrereleases(spec) == \E c \in spec : SpecifierPrereleases(c)

\* packvers Specifier.contains with the set's prereleases flag passed down.
SpecifierContains(c, v, prereleases) ==
    IF is_prerelease(v) /\ ~prereleases THEN FALSE
    ELSE CASE c.op = "==" -> v = c.v
           [] c.op = ">=" -> v >= c.v
           [] c.op = "<=" -> v <= c.v

\* packvers SpecifierSet.__contains__: `version in specifier`.
SpecifierSetContains(spec, v) ==
    LET prereleases == SpecifierSetPrereleases(spec)
    IN  IF is_prerelease(v) /\ ~prereleases THEN FALSE
        ELSE \A c \in spec : SpecifierContains(c, v, prereleases)

\* ------------------------------------------------- requirements, candidates

Names == {"a", "b", "c"}

\* The names a provider ever identifies, with their rank in string order.
NameRank == [n \in Names \cup {"nonexistant"} |->
                CASE n = "a" -> 1 [] n = "b" -> 2 [] n = "c" -> 3 [] OTHER -> 4]

NoExtras == {}

\* An environment marker is "" (none) or a <<key, value>> equality.
NoMarker == <<>>

Requirement(name, extras, spec, marker) ==
    [name |-> name, extras |-> extras, specifier |-> spec, marker |-> marker]

Candidate(name, version, extras) ==
    [name |-> name, version |-> version, extras |-> extras]

\* The parent of a user-supplied requirement (Python's None).
None == Candidate("None", 0, NoExtras)

\* packvers.utils.canonicalize_name on the names of the model.
canonicalize_name(name) == IF name = "NonExistant" THEN "nonexistant" ELSE name

\* An identifier "name" or "name[e1,e2]": the name and the sorted extras.
Identifier(name, extras) == [name |-> name, extras |-> extras]

identify(requirement_or_candidate) ==
    Identifier(canonicalize_name(requirement_or_candidate.name),
               requirement_or_candidate.extras)

remove_extras(identifier) == identifier.name

\* String order of two identifiers: "a" < "a[x]" < "b".
IdentifierLess(i, j) ==
    \/ NameRank[i.name] < NameRank[j.name]
    \/ /\ i.name = j.name
       /\ i.extras = {} /\ j.extras # {}

\* ------------------------------------------------------------------- state

VARIABLES
    \* the package universe: what the indexes and the metadata answer
    index,                \* name -> the versions usable under the environment
    metadata,             \* <<name, version>> -> the requirements it declares
    \* the inputs of resolve()
    direct_dependencies,  \* the DependentPackage records of the caller
    operating_system,
    ignore_errors,
    max_rounds,
    \* resolvelib's Resolution
    states,               \* the stack of State(mapping, criteria)
    round_index,
    pc,                   \* "start", "rounds" or "done"
    outcome,              \* "", "success" or the exception raised
    result,               \* Result(mapping, graph, criteria) on success
    \* what the run reported on its way
    rejected,             \* the candidates a pin attempt or a backjump rejected
    discarded             \* the identifiers whose requirements were discarded

resolverVars == <<index, metadata, direct_dependencies, operating_system,
                  ignore_errors, max_rounds, states, round_index, pc, outcome,
                  result, rejected, discarded>>

VARIABLES
    \* the remote server and the cache directory (utils_pypi.py)
    remote,               \* url -> the body the server answers with
    os_linesep,           \* os.linesep of the host
    cache_files,          \* cache key -> the file of that name, if any
    completed,            \* url -> what the latest completed Cache.get returned
    last_get              \* the latest Cache.get: its arguments and its outcome

cacheVars == <<remote, os_linesep, cache_files, completed, last_get>>

VARIABLES
    \* one call of get_remote_file_content
    fetch_pc,             \* "idle", "request" or "done"
    fetch_args,           \* url, as_text, headers_only
    _delay,
    sleeps,               \* the arguments of the time.sleep() calls, in order
    fetch_outcome         \* "", "returned" or the exception raised

fetchVars == <<fetch_pc, fetch_args, _delay, sleeps, fetch_outcome>>

VARIABLES
    \* concurrent Cache.get calls for one url
    body,                 \* the body the server answers with now
    fetched,              \* the bodies it has answered with
    cached,               \* the cache file of the url
    call                  \* process -> its Cache.get call

concurrentVars == <<body, fetched, cached, call>>

VARIABLES
    \* one call of resolve_dependencies (api.py)
    api_pc,
    api_args,             \* the arguments of the call
    home_netrc,           \* whether ~/.netrc exists
    api_events,           \* the I/O the call has done, in order
    api_exc               \* "" or the exception raised

apiVars == <<api_pc, api_args, home_netrc, api_events, api_exc>>

VARIABLES
    \* the repositories a PythonInputProvider is built over
    repos                 \* the repositories, in order: name -> its index page

VARIABLES
    \* one caller of the setup.py handling (api.py, resolution.py)
    setup_pc,             \* "idle", "call", "direct", "provider" or "done"
    setup_args,           \* the entry point called and the option as passed
    analyze_setup_py_insecurely,  \* the option as the callee holds it
    iter_requirements,    \* the setup.py files the live evaluator executed
    extracted,            \* the candidates whose requirements were extracted
    setup_exc             \* "" or the exception raised

setupVars == <<setup_pc, setup_args, analyze_setup_py_insecurely, iter_requirements,
               extracted, setup_exc>>

VARIABLES
    \* the latest call of a function of the provider (resolution.py)
    provider_call         \* its name, its arguments and its result

VARIABLES
    \* the provider's memo of requirements (resolution.py)
    dependencies_by_purl, \* purl -> the requirements stored for it
    extractions,          \* purl -> the extractions performed for it
    calls                 \* the get_dependencies calls made

memoVars == <<dependencies_by_purl, extractions, calls>>

VARIABLES
    \* one PypiSimpleRepository (utils_pypi.py)
    packages,             \* normalized name -> the versions it holds
    fetched_package_normalized_names,
    fetches               \* normalized name -> the fetches of its index page

repositoryVars == <<packages, fetched_package_normalized_names, fetches>>

VARIABLES
    \* the phases of one resolution (api.py)
    phase_pc,             \* "idle", "A", "B", "resolve", "rounds", "C", "done", "raised"
    tasks,                \* phase -> the state of each of its tasks
    versions_by_package   \* the provider's memo: name -> the versions filled for it

phaseVars == <<phase_pc, tasks, versions_by_package>>

providerVars == <<repos, setupVars, provider_call, memoVars, repositoryVars, phaseVars>>

vars == <<resolverVars, cacheVars, fetchVars, concurrentVars, apiVars, providerVars>>

\* ---------------------------------------------------------------- sequences

RECURSIVE SetToSeq(_)
\* The elements of a finite set of numbers, oldest (smallest) first.
SetToSeq(S) ==
    IF S = {} THEN <<>>
    ELSE LET m == CHOOSE x \in S : \A y \in S : x <= y
         IN  <<m>> \o SetToSeq(S \ {m})

Range(seq) == {seq[i] : i \in 1..Len(seq)}

\* ------------------------------------------------------ environment markers

capitalize(os) ==
    CASE os = "linux" -> "Linux" [] os = "windows" -> "Windows" [] os = "macos" -> "Macos"

get_environment_marker_from_environment(os) ==
    [extra |-> "", python_version |-> "3.10",
     platform_system |-> capitalize(os), sys_platform |-> os]

\* Marker.evaluate for a marker `key == "value"`.
MarkerEvaluate(marker, environment_marker) == environment_marker[marker[1]] = marker[2]

\* ------------------------------------------------------ PythonInputProvider

is_valid_version(parsed_version, requirements, bad_versions) ==
    IF parsed_version \in bad_versions THEN FALSE
    ELSE IF \E i \in 1..Len(requirements) :
                ~SpecifierSetContains(requirements[i].specifier, parsed_version)
         THEN \A i \in 1..Len(requirements) : requirements[i].specifier = {}
         ELSE TRUE

\* The index page a repository serves for a name: the versions it lists, or
\* the failure of the fetch.
Listed(versions) == [exc |-> "", versions |-> versions]
NotFetched == [exc |-> "RemoteNotFetchedException", versions |-> {}]

\* PypiSimpleRepository.get_package_versions on a repository that has not
\* fetched the page yet: a failed fetch is caught and leaves no version.
get_package_versions(page) ==
    IF page.exc = "" THEN page.versions ELSE {}

\* The versions of the repository with a distribution valid for the Python
\* version, as the page lists them (oldest first).
_get_versions_for_package_from_repo(name, repo) ==
    SetToSeq(get_package_versions(repo[name]))

\* The answer of the PyPI JSON API for a name.
_get_versions_for_package_from_pypi_json_api(name) == SetToSeq(index[name])

RECURSIVE ExtendFromRepos(_, _)
\* `for repo in self.repos: versions.extend(...)` from repository i on.
ExtendFromRepos(name, i) ==
    IF i > Len(repos) THEN <<>>
    ELSE _get_versions_for_package_from_repo(name, repos[i]) \o ExtendFromRepos(name, i + 1)

\* fill_versions_for_package asking the first repository alone.
fill_versions_from_first_repo(name) ==
    IF repos # <<>>
    THEN _get_versions_for_package_from_repo(name, repos[1])
    ELSE _get_versions_for_package_from_pypi_json_api(name)

fill_versions_for_package(name) ==
    IF repos # <<>>
    THEN ExtendFromRepos(name, 1)
    ELSE _get_versions_for_package_from_pypi_json_api(name)

\* The memo versions_by_package returns the list fill_versions_for_package
\* stored, and an empty list is filled again.
get_versions_for_package(name) == fill_versions_for_package(name)

\* get_candidates without the suppression of pre-releases.
get_candidates_with_prereleases(all_versions, requirements, bad_versions, name, extras) ==
    LET valid == SelectSeq(all_versions,
                           LAMBDA v : is_valid_version(v, requirements, bad_versions))
    IN  [i \in 1..Len(valid) |-> Candidate(name, valid[i], extras)]

get_candidates(all_versions, requirements, bad_versions, name, extras) ==
    LET valid == SelectSeq(all_versions,
                           LAMBDA v : is_valid_version(v, requirements, bad_versions))
        kept  == IF \A i \in 1..Len(valid) : is_prerelease(valid[i])
                 THEN valid
                 ELSE SelectSeq(valid, LAMBDA v : ~is_prerelease(v))
    IN  [i \in 1..Len(kept) |-> Candidate(name, kept[i], extras)]

\* The result of a call that may raise: exc is "" or the exception's name.
Returned(value) == [exc |-> "", value |-> value]
Raised(exc) == [exc |-> exc, value |-> <<>>]

\* _iter_matches with the test of ignore_errors inverted.
_iter_matches_inverted(identifier, requirements, incompatibilities) ==
    LET name == remove_extras(identifier)
        bad_versions == {incompatibilities[i].version : i \in 1..Len(incompatibilities)}
        extras == UNION {requirements[i].extras : i \in 1..Len(requirements)}
        versions == get_versions_for_package(name)
    IN  IF versions = <<>>
        THEN IF ~ignore_errors
             THEN Returned(<<Candidate("NonExistant", 0, NoExtras)>>)
             ELSE Raised("NoVersionsFound")
        ELSE Returned(get_candidates(versions, requirements, bad_versions, name, extras))

_iter_matches(identifier, requirements, incompatibilities) ==
    LET name == remove_extras(identifier)
        bad_versions == {incompatibilities[i].version : i \in 1..Len(incompatibilities)}
        extras == UNION {requirements[i].extras : i \in 1..Len(requirements)}
        versions == get_versions_for_package(name)
    IN  IF versions = <<>>
        THEN IF ignore_errors
             THEN Returned(<<Candidate("NonExistant", 0, NoExtras)>>)
             ELSE Raised("NoVersionsFound")
        ELSE Returned(get_candidates(versions, requirements, bad_versions, name, extras))

RECURSIVE SortedReverse(_)
\* sorted(candidates, key=version, reverse=True): a stable sort, so equal
\* versions keep the order they were listed in.
SortedReverse(seq) ==
    IF seq = <<>> THEN <<>>
    ELSE LET first == CHOOSE i \in 1..Len(seq) :
                         /\ \A j \in 1..Len(seq) : seq[j].version <= seq[i].version
                         /\ \A j \in 1..(i - 1) : seq[j].version < seq[i].version
         IN  <<seq[first]>> \o
             SortedReverse([j \in 1..(Len(seq) - 1) |->
                               IF j < first THEN seq[j] ELSE seq[j + 1]])

\* find_matches without the sort: the candidates in the order the index lists
\* them, oldest first.
find_matches_unsorted(identifier, requirements, incompatibilities) ==
    _iter_matches(identifier, requirements, incompatibilities)

\* sorted(matches, key=version, reverse=True), unless the generator raised.
Sorted(matches) ==
    IF matches.exc # "" THEN matches
    ELSE Returned(SortedReverse(matches.value))

find_matches(identifier, requirements, incompatibilities) ==
    Sorted(_iter_matches(identifier, requirements, incompatibilities))

\* is_satisfied_by without the test of the specifier.
is_satisfied_by_anything(requirement, candidate) == TRUE

is_satisfied_by(requirement, candidate) ==
    IF SpecifierSetContains(requirement.specifier, candidate.version) THEN TRUE
    ELSE IF requirement.specifier = {} THEN TRUE
    ELSE FALSE

\* The dependency extractor's answer for a purl (wheel METADATA, sdist or
\* JSON API): nothing for a package no index knows.
get_requirements_for_package(name, version) ==
    IF <<name, version>> \in DOMAIN metadata THEN metadata[<<name, version>>] ELSE <<>>

\* _iter_dependencies without the evaluation of the markers.
_iter_dependencies_unfiltered(candidate, requirements) ==
    LET name == canonicalize_name(candidate.name)
        own  == IF candidate.extras # {}
                THEN <<Requirement(name, NoExtras, {Clause("==", candidate.version)}, NoMarker)>>
                ELSE <<>>
    IN  own \o requirements

\* _iter_dependencies, given what get_requirements_for_package returned.
_iter_dependencies(candidate, requirements) ==
    LET name == canonicalize_name(candidate.name)
        own  == IF candidate.extras # {}
                THEN <<Requirement(name, NoExtras, {Clause("==", candidate.version)}, NoMarker)>>
                ELSE <<>>
        environment_marker == get_environment_marker_from_environment(operating_system)
    IN  own \o SelectSeq(requirements,
                         LAMBDA r : \/ r.marker = NoMarker
                                    \/ MarkerEvaluate(r.marker, environment_marker))

get_dependencies(candidate) ==
    _iter_dependencies(candidate,
                       get_requirements_for_package(canonicalize_name(candidate.name),
                                                    candidate.version))

\* Whether `transitive` (no requirement on the identifier comes from the user).
PreferenceTransitive(information) ==
    \A i \in 1..Len(information) : information[i].parent # None

\* get_preference returning the key (transitive,) alone.
get_preference_less_transitive(id1, information1, id2, information2) ==
    LET t1 == \A i \in 1..Len(information1) : information1[i].parent # None
        t2 == \A i \in 1..Len(information2) : information2[i].parent # None
    IN  ~t1 /\ t2

\* get_preference returns the key (transitive, identifier); this is the order
\* of two such keys (False < True, then the identifiers' string order).
get_preference_less(id1, information1, id2, information2) ==
    LET t1 == PreferenceTransitive(information1)
        t2 == PreferenceTransitive(information2)
    IN  \/ ~t1 /\ t2
        \/ t1 = t2 /\ IdentifierLess(id1, id2)

\* ------------------------------------------------------ resolvelib Resolution

Criterion(candidates, information, incompatibilities) ==
    [candidates |-> candidates, information |-> information,
     incompatibilities |-> incompatibilities]

RequirementInformation(requirement, parent) ==
    [requirement |-> requirement, parent |-> parent]

State(mapping, criteria) == [mapping |-> mapping, criteria |-> criteria]

iter_requirement(criterion) ==
    [i \in 1..Len(criterion.information) |-> criterion.information[i].requirement]

\* dict[key] = value
Put(dict, key, value) ==
    [k \in DOMAIN dict \cup {key} |-> IF k = key THEN value ELSE dict[k]]

\* The mapping is an OrderedDict: a sequence of (key, candidate) entries.
MappingKeys(mapping) == {mapping[i].key : i \in 1..Len(mapping)}

MappingGet(mapping, key) ==
    mapping[CHOOSE i \in 1..Len(mapping) : mapping[i].key = key].candidate

\* mapping.pop(name, None); mapping[name] = candidate
MappingPin(mapping, name, candidate) ==
    SelectSeq(mapping, LAMBDA e : e.key # name) \o <<[key |-> name, candidate |-> candidate]>>

\* The end of _add_to_criteria: the criterion built from the matches found is
\* stored, unless it has no candidate (RequirementsConflicted).
StoreCriterion(criteria, identifier, matches, criterion) ==
    IF matches.exc # ""
    THEN [exc |-> matches.exc, criteria |-> criteria, criterion |-> criterion]
    ELSE IF matches.value = <<>>
    THEN [exc |-> "RequirementsConflicted", criteria |-> criteria, criterion |-> criterion]
    ELSE [exc |-> "", criteria |-> Put(criteria, identifier, criterion),
          criterion |-> criterion]

\* Criterion(candidates=build_iter_view(matches), information, incompatibilities)
CriterionOf(criteria, identifier, matches, information, incompatibilities) ==
    StoreCriterion(criteria, identifier, matches,
                   Criterion(matches.value, information, incompatibilities))

_add_to_criteria(criteria, requirement, parent) ==
    LET identifier == identify(requirement)
        known == identifier \in DOMAIN criteria
        incompatibilities == IF known THEN criteria[identifier].incompatibilities ELSE <<>>
        requirements == (IF known THEN iter_requirement(criteria[identifier]) ELSE <<>>)
                            \o <<requirement>>
        information == (IF known THEN criteria[identifier].information ELSE <<>>)
                            \o <<RequirementInformation(requirement, parent)>>
    IN  CriterionOf(criteria, identifier,
                    find_matches(identifier, requirements, incompatibilities),
                    information, incompatibilities)

RECURSIVE AddRequirements(_, _, _, _)
RECURSIVE AddRest(_, _, _, _)
\* The loop of _get_updated_criteria (and of resolve() over the user's
\* requirements): add requirements[i..] until one raises.
AddRequirements(criteria, requirements, parent, i) ==
    IF i > Len(requirements)
    THEN [exc |-> "", criteria |-> criteria, criterion |-> <<>>]
    ELSE AddRest(_add_to_criteria(criteria, requirements[i], parent),
                 requirements, parent, i)

\* After requirements[i] was added: stop at an exception, or go on with the
\* next requirement.
AddRest(added, requirements, parent, i) ==
    IF added.exc # "" THEN added
    ELSE AddRequirements(added.criteria, requirements, parent, i + 1)

_get_updated_criteria(state, candidate) ==
    AddRequirements(state.criteria, get_dependencies(candidate), candidate, 1)

_is_current_pin_satisfying(state, name) ==
    /\ name \in MappingKeys(state.mapping)
    /\ LET requirements == iter_requirement(state.criteria[name])
       IN  \A i \in 1..Len(requirements) :
               is_satisfied_by(requirements[i], MappingGet(state.mapping, name))

RECURSIVE AttemptCandidates(_, _, _, _)
RECURSIVE AttemptCandidate(_, _, _, _, _, _, _)
\* The loop of _attempt_to_pin_criterion from candidate i on.
AttemptCandidates(state, name, i, causes) ==
    IF i > Len(state.criteria[name].candidates)
    THEN [exc |-> "", state |-> state, causes |-> causes,
          rejected |-> Range(state.criteria[name].candidates)]
    ELSE AttemptCandidate(state, name, i, causes, state.criteria[name],
                          state.criteria[name].candidates[i],
                          _get_updated_criteria(state, state.criteria[name].candidates[i]))

\* The body of the loop for candidate i, with the criteria its dependencies
\* give: try the next candidate on a conflict, or check the candidate against
\* the criterion's requirements and pin it.
AttemptCandidate(state, name, i, causes, criterion, candidate, updated) ==
    IF updated.exc = "RequirementsConflicted"
    THEN AttemptCandidates(state, name, i + 1, causes \o <<updated.criterion>>)
    ELSE IF updated.exc # ""
    THEN [exc |-> updated.exc, state |-> state, causes |-> causes,
          rejected |-> Range(SubSeq(criterion.candidates, 1, i - 1))]
    ELSE IF \E j \in 1..Len(criterion.information) :
               ~is_satisfied_by(criterion.information[j].requirement, candidate)
    THEN [exc |-> "InconsistentCandidate", state |-> state, causes |-> causes,
          rejected |-> Range(SubSeq(criterion.candidates, 1, i - 1))]
    ELSE [exc |-> "",
          state |-> State(MappingPin(state.mapping, name, candidate), updated.criteria),
          causes |-> <<>>,
          rejected |-> Range(SubSeq(criterion.candidates, 1, i - 1))]

\* Returns the state with the pin, or the criteria that rejected every candidate.
_attempt_to_pin_criterion(state, name) == AttemptCandidates(state, name, 1, <<>>)

_remove_information_from_criteria(criteria, parents) ==
    IF parents = {} THEN criteria
    ELSE [k \in DOMAIN criteria |->
            Criterion(criteria[k].candidates,
                      SelectSeq(criteria[k].information,
                                LAMBDA information :
                                    \/ information.parent = None
                                    \/ identify(information.parent) \notin parents),
                      criteria[k].incompatibilities)]

Front(seq) == SubSeq(seq, 1, Len(seq) - 1)

RECURSIVE Concat(_)
\* The concatenation of a sequence of sequences.
Concat(seqs) == IF seqs = <<>> THEN <<>> ELSE Head(seqs) \o Concat(Tail(seqs))

\* causes = [i for c in failure_causes for i in c.information]
CausesOf(failure_causes) ==
    Concat([i \in 1..Len(failure_causes) |-> failure_causes[i].information])

RECURSIVE FindBrokenState(_, _)
\* The inner loop of _backjump: pop states until the last pin of one depends
\* on an identifier of the conflict.
FindBrokenState(stack, incompatible_deps) ==
    IF stack = <<>> \/ stack[Len(stack)].mapping = <<>>
    THEN [exc |-> "ResolutionImpossible", stack |-> stack,
          broken_state |-> <<>>, name |-> <<>>, candidate |-> <<>>]
    ELSE LET broken_state == stack[Len(stack)]
             last == broken_state.mapping[Len(broken_state.mapping)]
             dependencies == get_dependencies(last.candidate)
             current_dependencies ==
                 {identify(dependencies[i]) : i \in 1..Len(dependencies)}
         IN  IF current_dependencies \cap incompatible_deps # {}
             THEN [exc |-> "", stack |-> Front(stack), broken_state |-> broken_state,
                   name |-> last.key, candidate |-> last.candidate]
             ELSE FindBrokenState(Front(stack), incompatible_deps)

\* One step of _patch_criteria: criteria[k] with `incompatibilities` applied.
\* The end of one step of _patch_criteria: the criterion with the matches
\* found, unless none is left.
Patched(criteria, k, incompatibilities, matches) ==
    IF matches.exc # ""
    THEN [exc |-> matches.exc, ok |-> FALSE, criteria |-> criteria]
    ELSE IF matches.value = <<>>
    THEN [exc |-> "", ok |-> FALSE, criteria |-> criteria]
    ELSE [exc |-> "", ok |-> TRUE,
          criteria |-> Put(criteria, k,
              Criterion(matches.value, criteria[k].information,
                        incompatibilities \o criteria[k].incompatibilities))]

PatchCriterion(criteria, k, incompatibilities) ==
    IF incompatibilities = <<>> \/ k \notin DOMAIN criteria
    THEN [exc |-> "", ok |-> TRUE, criteria |-> criteria]
    ELSE Patched(criteria, k, incompatibilities,
                 find_matches(k, iter_requirement(criteria[k]),
                              criteria[k].incompatibilities \o incompatibilities))

\* _patch_criteria: the incompatibilities of every criterion of the broken
\* state, then the candidate that was unpinned. The criteria of distinct keys
\* are patched independently of each other, so the dict's order does not show.
\* The end of _patch_criteria, `each` being the patch of every criterion of the
\* broken state: then the candidate that was unpinned.
PatchLast(criteria, keys, each, name, candidate) ==
    IF \E k \in keys : each[k].exc # ""
    THEN [exc |-> "NoVersionsFound", ok |-> FALSE, criteria |-> criteria]
    ELSE IF \E k \in keys : ~each[k].ok
    THEN [exc |-> "", ok |-> FALSE, criteria |-> criteria]
    ELSE PatchCriterion([k \in DOMAIN criteria |->
                            IF k \in keys THEN each[k].criteria[k] ELSE criteria[k]],
                        name, <<candidate>>)

_patch_criteria(criteria, broken_state, name, candidate) ==
    PatchLast(criteria, DOMAIN broken_state.criteria,
              [k \in DOMAIN broken_state.criteria |->
                  PatchCriterion(criteria, k, broken_state.criteria[k].incompatibilities)],
              name, candidate)

RECURSIVE BackjumpLoop(_, _)
RECURSIVE BackjumpTo(_, _, _)
RECURSIVE BackjumpPatched(_, _, _, _, _)
\* The outer loop of _backjump.
BackjumpLoop(stack, incompatible_deps) ==
    IF Len(stack) < 3
    THEN [exc |-> "", success |-> FALSE, states |-> stack]
    ELSE BackjumpTo(stack, incompatible_deps,
                    FindBrokenState(Front(stack), incompatible_deps))

\* One turn of the outer loop, `found` being the state popped: patch the
\* criteria of the state before it and push the patched state.
BackjumpTo(stack, incompatible_deps, found) ==
    IF found.exc # ""
    THEN [exc |-> found.exc, success |-> FALSE, states |-> stack]
    ELSE BackjumpPatched(stack, incompatible_deps, found.stack,
                         found.stack[Len(found.stack)].mapping,
                         _patch_criteria(found.stack[Len(found.stack)].criteria,
                                         found.broken_state, found.name, found.candidate))

BackjumpPatched(stack, incompatible_deps, popped, mapping, patched) ==
    IF patched.exc # ""
    THEN [exc |-> patched.exc, success |-> FALSE, states |-> stack]
    ELSE IF patched.ok
    THEN [exc |-> "", success |-> TRUE,
          states |-> popped \o <<State(mapping, patched.criteria)>>]
    ELSE BackjumpLoop(popped \o <<State(mapping, patched.criteria)>>, incompatible_deps)

_backjump(stack, causes) ==
    LET incompatible_deps ==
            {identify(causes[i].parent) : i \in {j \in 1..Len(causes) : causes[j].parent # None}}
            \cup {identify(causes[i].requirement) : i \in 1..Len(causes)}
    IN  BackjumpLoop(stack, incompatible_deps)

\* The names min(unsatisfied_names, key=self._get_preference) can return: the
\* first of the names whose key no other key is below.
PreferredNames(state, unsatisfied_names) ==
    {n \in unsatisfied_names :
        \A m \in unsatisfied_names \ {n} :
            ~get_preference_less(m, state.criteria[m].information,
                                 n, state.criteria[n].information)}

UnsatisfiedNames(state) ==
    {k \in DOMAIN state.criteria : ~_is_current_pin_satisfying(state, k)}

\* One round of resolve() that pins `name`: the new stack of states, or the
\* exception raised.
\* The end of a round whose pin attempt failed with `causes`, `jumped` being
\* the result of the backjump.
AfterBackjump(stack, attempt, jumped) ==
    IF jumped.exc # ""
    THEN [exc |-> jumped.exc, states |-> stack,
          rejected |-> attempt.rejected, discarded |-> {}]
    ELSE IF ~jumped.success
    THEN [exc |-> "ResolutionImpossible", states |-> stack,
          rejected |-> attempt.rejected, discarded |-> {}]
    ELSE [exc |-> "", states |-> jumped.states,
          rejected |-> attempt.rejected, discarded |-> {}]

\* The end of a round that pinned a candidate: the requirements of the names
\* the pin made unsatisfied are discarded, and the state is pushed.
AfterPin(stack, attempt, newly_unsatisfied_names) ==
    LET cleaned == State(attempt.state.mapping,
                         _remove_information_from_criteria(attempt.state.criteria,
                                                           newly_unsatisfied_names))
    IN  [exc |-> "", states |-> Front(stack) \o <<cleaned, cleaned>>,
         rejected |-> attempt.rejected, discarded |-> newly_unsatisfied_names]

\* The round after the pin attempt.
AfterAttempt(stack, satisfied_names, attempt) ==
    IF attempt.exc # ""
    THEN [exc |-> attempt.exc, states |-> stack,
          rejected |-> attempt.rejected, discarded |-> {}]
    ELSE IF attempt.causes # <<>>
    THEN AfterBackjump(stack, attempt, _backjump(stack, CausesOf(attempt.causes)))
    ELSE AfterPin(stack, attempt,
                  {k \in satisfied_names : ~_is_current_pin_satisfying(attempt.state, k)})

ResolveRound(stack, name) ==
    AfterAttempt(stack,
                 DOMAIN stack[Len(stack)].criteria \ UnsatisfiedNames(stack[Len(stack)]),
                 _attempt_to_pin_criterion(stack[Len(stack)], name))

\* --------------------------------------------------------- resolvelib Result

EmptyDict == [k \in {} |-> {}]

Result(mapping, graph, criteria) ==
    [mapping |-> mapping, graph |-> graph, criteria |-> criteria]

NoResult == Result(<<>>, [vertices |-> {}, edges |-> {}], EmptyDict)

\* The graph's vertex for Python's None, the parent of the user's requirements.
RootKey == identify(None)

\* all_keys[id(p)]: the keys of the mapping that hold the candidate p.
ParentKeys(mapping, parent) ==
    IF parent = None THEN {RootKey}
    ELSE {mapping[i].key : i \in {j \in 1..Len(mapping) : mapping[j].candidate = parent}}

CriterionParentKeys(state, k) ==
    UNION {ParentKeys(state.mapping, state.criteria[k].information[i].parent) :
              i \in 1..Len(state.criteria[k].information)}

RECURSIVE _has_route_to_root(_, _)
\* The keys with a route to the root, grown from `connected`.
_has_route_to_root(state, connected) ==
    LET more == {k \in DOMAIN state.criteria \ connected :
                    CriterionParentKeys(state, k) \cap connected # {}}
    IN  IF more = {} THEN connected
        ELSE _has_route_to_root(state, connected \cup more)

_build_result(state) ==
    LET connected == _has_route_to_root(state, {RootKey})
        keys == DOMAIN state.criteria \cap connected
        edges == UNION {{<<pkey, k>> : pkey \in CriterionParentKeys(state, k)} : k \in keys}
        vertices == {RootKey} \cup keys \cup {e[1] : e \in edges}
    IN  Result(SelectSeq(state.mapping, LAMBDA e : e.key \in connected),
               [vertices |-> vertices, edges |-> edges],
               state.criteria)

\* ------------------------------------------------------------------- api.py

DependentPackage(requirement, is_editable) ==
    [extracted_requirement |-> requirement, is_editable |-> is_editable]

can_process_dependent_package(dependency) == ~dependency.is_editable

get_requirements_from_direct_dependencies(dependencies, environment_marker) ==
    LET processed == SelectSeq(dependencies, can_process_dependent_package)
        kept == SelectSeq(processed,
                          LAMBDA d : \/ d.extracted_requirement.marker = NoMarker
                                     \/ MarkerEvaluate(d.extracted_requirement.marker,
                                                       environment_marker))
    IN  [i \in 1..Len(kept) |-> kept[i].extracted_requirement]

\* ------------------------------------------------------------- components

\* The components (resolver, cache, fetch, concurrent cache, api call) are run
\* one at a time; the others rest in these states.
NoFile == [exists |-> FALSE, data |-> <<>>]

NoGet == [url |-> "", as_text |-> TRUE, force |-> FALSE, exc |-> "", content |-> <<>>,
          requests |-> 0, known |-> FALSE, before |-> <<>>]

CacheIdle ==
    /\ remote = <<>>
    /\ os_linesep = <<>>
    /\ cache_files = <<>>
    /\ completed = <<>>
    /\ last_get = NoGet

FetchIdle ==
    /\ fetch_pc = "idle"
    /\ fetch_args = <<>>
    /\ _delay = 0
    /\ sleeps = <<>>
    /\ fetch_outcome = ""

ConcurrentIdle ==
    /\ body = <<>>
    /\ fetched = {}
    /\ cached = NoFile
    /\ call = <<>>

ApiIdle ==
    /\ api_pc = "idle"
    /\ api_args = <<>>
    /\ home_netrc = FALSE
    /\ api_events = <<>>
    /\ api_exc = ""

SetupIdle ==
    /\ setup_pc = "idle"
    /\ setup_args = <<>>
    /\ analyze_setup_py_insecurely = FALSE
    /\ iter_requirements = <<>>
    /\ extracted = 0
    /\ setup_exc = ""

MemoIdle ==
    /\ dependencies_by_purl = <<>>
    /\ extractions = <<>>
    /\ calls = 0

PhaseIdle ==
    /\ phase_pc = "idle"
    /\ tasks = <<>>
    /\ versions_by_package = <<>>

RepositoryIdle ==
    /\ packages = <<>>
    /\ fetched_package_normalized_names = {}
    /\ fetches = <<>>

NoCall == [fn |-> "", args |-> <<>>, result |-> <<>>]

ProviderIdle ==
    /\ repos = <<>>
    /\ SetupIdle
    /\ provider_call = NoCall
    /\ MemoIdle
    /\ RepositoryIdle
    /\ PhaseIdle

ResolverIdle ==
    /\ index = <<>>
    /\ metadata = <<>>
    /\ direct_dependencies = <<>>
    /\ operating_system = "linux"
    /\ ignore_errors = FALSE
    /\ max_rounds = 0
    /\ states = <<>>
    /\ round_index = 0
    /\ pc = "idle"
    /\ outcome = ""
    /\ result = [mapping |-> <<>>, graph |-> [vertices |-> {}, edges |-> {}],
                 criteria |-> <<>>]
    /\ rejected = {}
    /\ discarded = {}

\* ------------------------------------------------------ the package universe

\* What an index offers for a name: nothing, or release "1" (version 2) alone
\* or with one other version.
VersionSets ==
    {{}} \cup {S \in SUBSET Versions : 2 \in S /\ Cardinality(S) <= 2}

\* The specifiers the requirements of the universe carry.
SpecifierPool == {{}} \cup {{Clause("==", v)} : v \in Versions}

\* The packages depend on each other in a ring: the greatest version of a
\* package declares at most one requirement, on the next package.
Successor == [n \in Names |-> CASE n = "a" -> "b" [] n = "b" -> "c" [] n = "c" -> "a"]

DeclaredPool(n) ==
    {<<>>} \cup {<<Requirement(Successor[n], NoExtras, spec, NoMarker)>> : spec \in SpecifierPool}

Greatest(S) == CHOOSE x \in S : \A y \in S : y <= x

Plain(n) == DependentPackage(Requirement(n, NoExtras, {}, NoMarker), FALSE)

\* The direct dependencies a caller passes: plain names, an extra, an editable
\* line, a marker that holds on linux and one that holds on win32 only.
DirectPool ==
    { <<Plain("a")>>,
      <<Plain("a"), Plain("b")>>,
      <<Plain("a"), Plain("c")>>,
      <<DependentPackage(Requirement("a", {"x"}, {}, NoMarker), FALSE)>>,
      <<Plain("a"), DependentPackage(Requirement("b", NoExtras, {}, NoMarker), TRUE)>>,
      <<Plain("a"),
        DependentPackage(Requirement("b", NoExtras, {}, <<"sys_platform", "linux">>), FALSE),
        DependentPackage(Requirement("c", NoExtras, {}, <<"sys_platform", "win32">>), FALSE)>> }

OperatingSystems == {"linux"}

\* ResolutionTooDeep needs a budget smaller than the rounds a run takes.
RoundBudgets == {2, MaxRounds}

ResolverInit ==
    /\ \E versions \in [Names -> VersionSets] :
       \E declared \in [Names -> UNION {DeclaredPool(n) : n \in Names}] :
          /\ versions["a"] # {}
          /\ Cardinality(versions["c"]) <= 1
          /\ \A n \in Names : declared[n] \in DeclaredPool(n)
          /\ index = versions
          /\ metadata = [nv \in {<<n, v>> : n \in Names, v \in Versions} |->
                            IF nv[2] \in versions[nv[1]] /\ nv[2] = Greatest(versions[nv[1]])
                            THEN declared[nv[1]] ELSE <<>>]
    /\ direct_dependencies \in DirectPool
    /\ operating_system \in OperatingSystems
    /\ ignore_errors \in BOOLEAN
    /\ max_rounds \in RoundBudgets
    /\ states = <<>>
    /\ round_index = 0
    /\ pc = "start"
    /\ outcome = ""
    /\ result = NoResult
    /\ rejected = {}
    /\ discarded = {}

universeVars == <<index, metadata, direct_dependencies, operating_system,
                  ignore_errors, max_rounds>>

\* Resolver.resolve() up to the first round: the root state with the criteria
\* of the user's requirements, and its copy.
ResolveStart ==
    /\ pc = "start"
    /\ LET environment_marker == get_environment_marker_from_environment(operating_system)
           requirements == get_requirements_from_direct_dependencies(direct_dependencies,
                                                                     environment_marker)
           added == AddRequirements(EmptyDict, requirements, None, 1)
           root == State(<<>>, added.criteria)
       IN  IF added.exc # ""
           THEN /\ pc' = "done"
                /\ outcome' = IF added.exc = "RequirementsConflicted"
                              THEN "ResolutionImpossible" ELSE added.exc
                /\ UNCHANGED states
           ELSE /\ pc' = "rounds"
                /\ states' = <<root, root>>
                /\ UNCHANGED outcome
    /\ UNCHANGED <<universeVars, round_index, result, rejected, discarded>>
    /\ UNCHANGED <<cacheVars, fetchVars, concurrentVars, apiVars, providerVars>>

\* One iteration of `for round_index in range(max_rounds)`.
Round ==
    /\ pc = "rounds"
    /\ round_index < max_rounds
    /\ LET state == states[Len(states)]
           unsatisfied_names == UnsatisfiedNames(state)
       IN  IF unsatisfied_names = {}
           THEN /\ pc' = "done"
                /\ outcome' = "success"
                /\ result' = _build_result(state)
                /\ UNCHANGED <<states, round_index, rejected, discarded>>
           ELSE \E name \in PreferredNames(state, unsatisfied_names) :
                \E round \in {ResolveRound(states, name)} :
                   /\ rejected' = rejected \cup round.rejected
                   /\ discarded' = discarded \cup round.discarded
                   /\ UNCHANGED result
                   /\ IF round.exc # ""
                      THEN /\ pc' = "done"
                           /\ outcome' = round.exc
                           /\ UNCHANGED <<states, round_index>>
                      ELSE /\ states' = round.states
                           /\ round_index' = round_index + 1
                           /\ UNCHANGED <<pc, outcome>>
    /\ UNCHANGED universeVars
    /\ UNCHANGED <<cacheVars, fetchVars, concurrentVars, apiVars, providerVars>>

\* The loop ran max_rounds rounds: raise ResolutionTooDeep(max_rounds).
TooDeep ==
    /\ pc = "rounds"
    /\ round_index >= max_rounds
    /\ pc' = "done"
    /\ outcome' = "ResolutionTooDeep"
    /\ UNCHANGED <<universeVars, states, round_index, result, rejected, discarded>>
    /\ UNCHANGED <<cacheVars, fetchVars, concurrentVars, apiVars, providerVars>>

Init == ResolverInit /\ CacheIdle /\ FetchIdle /\ ConcurrentIdle /\ ApiIdle /\ ProviderIdle

Next == ResolveStart \/ Round \/ TooDeep

Spec == Init /\ [][Next]_vars

\* ------------------------------------------------ properties of the resolver

\* The state a successful run returned from.
FinalState == states[Len(states)]

RecordedRequirements(criteria, k) == Range(iter_requirement(criteria[k]))

\* `version in r.specifier, or r.specifier is empty`
InSpecifierOrEmpty(r, version) ==
    SpecifierSetContains(r.specifier, version) \/ r.specifier = {}

\* C1: in the result of a successful resolve(), the candidate pinned for an
\* identifier satisfies every requirement recorded in the identifier's
\* criterion: its version is in the requirement's specifier, or the specifier
\* is empty.
C1_PinSatisfiesRecordedRequirements ==
    outcome = "success" =>
        \A i \in 1..Len(result.mapping) :
            \A r \in RecordedRequirements(result.criteria, result.mapping[i].key) :
                InSpecifierOrEmpty(r, result.mapping[i].candidate.version)

\* A successful run that pinned an identifier with two recorded requirements,
\* one of them with a specifier.
C1_Witness ==
    /\ outcome = "success"
    /\ \E i \in 1..Len(result.mapping) :
          LET information == result.criteria[result.mapping[i].key].information
          IN  /\ Len(information) >= 2
              /\ \E j \in 1..Len(information) : information[j].requirement.specifier # {}

\* The requirements resolve() was called with.
UserRequirements ==
    get_requirements_from_direct_dependencies(
        direct_dependencies, get_environment_marker_from_environment(operating_system))

\* C2: in the result of a successful run every identifier of the mapping is a
\* vertex of the graph, every edge endpoint but the root is a key of the
\* mapping, and the root's children are the identifiers of the direct
\* requirements left after marker filtering.
C2_GraphOverMapping ==
    outcome = "success" =>
        /\ MappingKeys(result.mapping) \subseteq result.graph.vertices
        /\ \A e \in result.graph.edges :
              /\ e[1] = RootKey \/ e[1] \in MappingKeys(result.mapping)
              /\ e[2] = RootKey \/ e[2] \in MappingKeys(result.mapping)
        /\ {e[2] : e \in {d \in result.graph.edges : d[1] = RootKey}}
              = {identify(r) : r \in Range(UserRequirements)}

\* The names the run can come to require: the user's and those the metadata of
\* an offered version declares.
NamedPackages ==
    {r.name : r \in Range(UserRequirements)}
    \cup {r.name : r \in UNION {Range(metadata[<<n, v>>]) : n \in Names, v \in Versions}}

\* An assignment of one version per package (0: not installed) under which
\* every user requirement and every requirement of an installed version is
\* satisfied by an offered version.
IsConsistentAssignment(f) ==
    /\ \A n \in Names : f[n] # 0 => f[n] \in index[n]
    /\ \A r \in Range(UserRequirements) : f[r.name] # 0 /\ InSpecifierOrEmpty(r, f[r.name])
    /\ \A n \in Names :
          f[n] # 0 =>
              \A r \in Range(get_dependencies(Candidate(n, f[n], NoExtras))) :
                  f[r.name] # 0 /\ InSpecifierOrEmpty(r, f[r.name])

AssignmentExists == \E f \in [Names -> Versions \cup {0}] : IsConsistentAssignment(f)

\* C3: with ignore_errors off, a version for every named package and enough
\* rounds, resolve() succeeds when a consistent assignment exists and raises
\* ResolutionImpossible only when none exists.
C3_Complete ==
    (/\ pc = "done"
     /\ ~ignore_errors
     /\ \A n \in NamedPackages : index[n] # {}
     /\ outcome # "ResolutionTooDeep")
    => /\ AssignmentExists => outcome = "success"
       /\ outcome = "ResolutionImpossible" => ~AssignmentExists

\* The versions a package offers (the synthetic 0 for a package no index knows).
OfferedVersions(name) == IF index[name] = {} THEN {0} ELSE index[name]

\* The versions of the package of identifier k that satisfy the requirements
\* recorded for k, without the pre-releases when a final release is among them.
SatisfyingVersions(criteria, k) ==
    LET all == {v \in OfferedVersions(remove_extras(k)) :
                   \A r \in RecordedRequirements(criteria, k) : InSpecifierOrEmpty(r, v)}
    IN  IF \E v \in all : ~is_prerelease(v) THEN {v \in all : ~is_prerelease(v)} ELSE all

GivenUp(criteria, k) ==
    {c.version : c \in {d \in rejected : identify(d) = k}}
    \cup {c.version : c \in Range(criteria[k].incompatibilities)}

Outcomes ==
    {"success", "ResolutionTooDeep", "ResolutionImpossible", "NoVersionsFound",
     "InconsistentCandidate"}

CanStep ==
    \/ pc = "start"
    \/ /\ pc = "rounds"
       /\ round_index < max_rounds
       /\ \/ UnsatisfiedNames(FinalState) = {}
          \/ PreferredNames(FinalState, UnsatisfiedNames(FinalState)) # {}
    \/ pc = "rounds" /\ round_index >= max_rounds

\* A step starts the call, finishes it, or uses up one round.
StepUsesRound ==
    \/ pc = "start" /\ pc' \in {"rounds", "done"} /\ round_index' = round_index
    \/ pc = "rounds" /\ pc' = "done" /\ round_index' = round_index
    \/ pc = "rounds" /\ pc' = "rounds" /\ round_index' = round_index + 1

C6_OnePreferredName ==
    (pc = "rounds" /\ UnsatisfiedNames(FinalState) # {}) =>
        Cardinality(PreferredNames(FinalState, UnsatisfiedNames(FinalState))) = 1

\* A round with two unsatisfied identifiers of the same kind to choose from.
C6_Witness ==
    /\ pc = "rounds"
    /\ \E k1, k2 \in UnsatisfiedNames(FinalState) :
          /\ k1 # k2
          /\ PreferenceTransitive(FinalState.criteria[k1].information)
                = PreferenceTransitive(FinalState.criteria[k2].information)

\* ------------------------------------------------- get_remote_file_content

\* `if status == 429 and _delay < 20`
MaxDelay == 20

Statuses == {200, 404, 429}

FetchUrls == {"https://pypi.org/simple/a", "https://example.com/simple/a"}

FetchInit ==
    /\ fetch_pc = "idle"
    /\ fetch_args = <<>>
    /\ _delay = 0
    /\ sleeps = <<>>
    /\ fetch_outcome = ""
    /\ ResolverIdle /\ CacheIdle /\ ConcurrentIdle /\ ApiIdle /\ ProviderIdle

\* A caller calls get_remote_file_content(url, ...) with the default _delay.
FetchCall ==
    /\ fetch_pc = "idle"
    /\ \E url \in FetchUrls, as_text \in BOOLEAN, headers_only \in BOOLEAN :
          fetch_args' = [url |-> url, as_text |-> as_text, headers_only |-> headers_only]
    /\ fetch_pc' = "request"
    /\ UNCHANGED <<_delay, sleeps, fetch_outcome>>
    /\ UNCHANGED <<resolverVars, cacheVars, concurrentVars, apiVars, providerVars>>

\* The delay of the retry after a 429 answered to a request made after `delay`.
increased_delay(delay) == IF delay * 2 = 0 THEN 1 ELSE delay * 2

\* One activation of get_remote_file_content: sleep, request, then return,
\* raise, or call itself with the increased delay.
FetchRequest ==
    /\ fetch_pc = "request"
    /\ sleeps' = Append(sleeps, _delay)
    /\ \E status \in Statuses :
          IF status # 200
          THEN IF status = 429 /\ _delay < MaxDelay
               THEN /\ _delay' = increased_delay(_delay)
                    /\ UNCHANGED <<fetch_pc, fetch_outcome>>
               ELSE /\ fetch_pc' = "done"
                    /\ fetch_outcome' = "RemoteNotFetchedException"
                    /\ UNCHANGED _delay
          ELSE /\ fetch_pc' = "done"
               /\ fetch_outcome' = "returned"
               /\ UNCHANGED _delay
    /\ UNCHANGED fetch_args
    /\ UNCHANGED <<resolverVars, cacheVars, concurrentVars, apiVars, providerVars>>

FetchNext == FetchCall \/ FetchRequest

FetchSpec == FetchInit /\ [][FetchNext]_vars

\* The waits before the retries: every sleep but the one before the first
\* request.
RetryWaits == Tail(sleeps)

\* C9: the wait before the first retry is 1 s, the wait before each further
\* retry is twice the one before, and no wait is longer than 20 s.
C9_BackoffDoublesUpTo20 ==
    sleeps # <<>> =>
        /\ Len(RetryWaits) >= 1 => RetryWaits[1] = 1
        /\ \A i \in 2..Len(RetryWaits) : RetryWaits[i] = 2 * RetryWaits[i - 1]
        /\ \A i \in 1..Len(sleeps) : sleeps[i] <= 20

\* -------------------------------------------------------------------- Cache

\* The longest body a server answers with.
MaxBody == 2

\* The characters of a body: "CR" is "\r", "LF" is "\n".
Chars == {"x", "CR", "LF"}

Bodies == UNION {[1..n -> Chars] : n \in 1..MaxBody}

Urls == {"https://pypi.org/simple/a/", "ftp://pypi.org/simple/a/"}

\* path_or_url.startswith("https://") on the urls of the model.
IsHttps(url) == url = "https://pypi.org/simple/a/"

\* path_or_url.strip("/") on the urls of the model.
strip(url) ==
    CASE url = "https://pypi.org/simple/a/" -> "https://pypi.org/simple/a"
      [] url = "ftp://pypi.org/simple/a/" -> "ftp://pypi.org/simple/a"
      [] OTHER -> url

\* quote_plus(path_or_url.strip("/")): quote_plus maps distinct strings to
\* distinct file names, the stripped url stands for its quoted form.
cache_key(url) == strip(url)

CacheKeys == {cache_key(url) : url \in Urls}

RECURSIVE TextWrite(_, _)
\* What open(path, "w").write(content) puts in the file: "\n" becomes
\* os.linesep.
TextWrite(content, linesep) ==
    IF content = <<>> THEN <<>>
    ELSE (IF Head(content) = "LF" THEN linesep ELSE <<Head(content)>>)
             \o TextWrite(Tail(content), linesep)

RECURSIVE TextRead(_)
\* What open(path, "r").read() returns: "\r\n" and "\r" become "\n".
TextRead(data) ==
    IF data = <<>> THEN <<>>
    ELSE IF Head(data) = "CR"
    THEN IF Len(data) >= 2 /\ data[2] = "LF"
         THEN <<"LF">> \o TextRead(Tail(Tail(data)))
         ELSE <<"LF">> \o TextRead(Tail(data))
    ELSE <<Head(data)>> \o TextRead(Tail(data))

\* with open(cached, wmode) as fo: fo.write(content)
WrittenFile(content, as_text, linesep) ==
    [exists |-> TRUE, data |-> IF as_text THEN TextWrite(content, linesep) ELSE content]

get_local_file_content(file, as_text) ==
    IF as_text THEN TextRead(file.data) ELSE file.data

\* get_file_content(path_or_url) when the server answers with `status`: the
\* body of an https url or the error of get_remote_file_content; the other
\* url of the model has an unsupported scheme.
get_file_content(url, status, bodies) ==
    IF IsHttps(url)
    THEN IF status = 200 THEN Returned(bodies[url]) ELSE Raised("RemoteNotFetchedException")
    ELSE Raised("Exception")

\* Cache.get with the cache file opened for writing before the fetch.
OpenedBeforeFetch(file, fetched_content, as_text, linesep) ==
    IF fetched_content.exc # "" THEN [exists |-> TRUE, data |-> <<>>]
    ELSE WrittenFile(fetched_content.value, as_text, linesep)

\* The cache file after `content = get_file_content(...)` and, when that
\* returned, `with open(cached, wmode) as fo: fo.write(content)`.
Cached(file, fetched_content, as_text, linesep) ==
    IF fetched_content.exc # "" THEN file
    ELSE WrittenFile(fetched_content.value, as_text, linesep)

Get(url, as_text, force, exc, content, requests) ==
    [url |-> url, as_text |-> as_text, force |-> force, exc |-> exc, content |-> content,
     requests |-> requests]

NotCompleted == [known |-> FALSE, content |-> <<>>]

CacheInit ==
    /\ remote \in [{url \in Urls : IsHttps(url)} -> Bodies]
    /\ os_linesep \in {<<"LF">>, <<"CR", "LF">>}
    /\ cache_files = [k \in CacheKeys |-> NoFile]
    /\ completed = [url \in Urls |-> NotCompleted]
    /\ last_get = Get("", TRUE, FALSE, "", <<>>, 0)
    /\ ResolverIdle /\ FetchIdle /\ ConcurrentIdle /\ ApiIdle /\ ProviderIdle

\* Cache.get(credentials, path_or_url, as_text, force) with no other call
\* running: the server answers the fetch with its body or with an error.
CacheGet ==
    /\ \E url \in Urls, as_text \in BOOLEAN, force \in BOOLEAN :
          LET key == cache_key(url)
              file == cache_files[key]
          IN  IF force \/ ~file.exists
              THEN \E status \in {200, 404} :
                   \E fetched_content \in {get_file_content(url, status, remote)} :
                      /\ cache_files' = [cache_files EXCEPT
                                            ![key] = Cached(file, fetched_content, as_text,
                                                            os_linesep)]
                      /\ last_get' = Get(url, as_text, force, fetched_content.exc,
                                         fetched_content.value,
                                         IF IsHttps(url) THEN 1 ELSE 0)
                      /\ completed' = IF fetched_content.exc # "" THEN completed
                                      ELSE [completed EXCEPT
                                               ![url] = [known |-> TRUE,
                                                         content |-> fetched_content.value]]
              ELSE LET content == get_local_file_content(file, as_text)
                   IN  /\ last_get' = Get(url, as_text, force, "", content, 0)
                       /\ completed' = [completed EXCEPT
                                           ![url] = [known |-> TRUE, content |-> content]]
                       /\ UNCHANGED cache_files
    /\ UNCHANGED <<remote, os_linesep>>
    /\ UNCHANGED <<resolverVars, fetchVars, concurrentVars, apiVars, providerVars>>

\* The server comes to answer a url with another body.
RemoteChanges ==
    /\ \E url \in DOMAIN remote, new \in Bodies :
          /\ new # remote[url]
          /\ remote' = [remote EXCEPT ![url] = new]
    /\ UNCHANGED <<os_linesep, cache_files, completed, last_get>>
    /\ UNCHANGED <<resolverVars, fetchVars, concurrentVars, apiVars, providerVars>>

CacheNext == CacheGet \/ RemoteChanges

CacheSpec == CacheInit /\ [][CacheNext]_vars

\* C7: a Cache.get(url, force=false) that follows a completed Cache.get(url)
\* returns what the latest completed get of the url returned, and makes no
\* network request.
C7_CachedGetReturnsSameContent ==
    [][(/\ last_get'.url # ""
        /\ ~last_get'.force
        /\ last_get'.exc = ""
        /\ completed[last_get'.url].known)
       => /\ last_get'.content = completed[last_get'.url].content
          /\ last_get'.requests = 0]_vars

\* C29: a Cache.get whose fetch fails, with RemoteNotFetchedException or
\* with the error of an unsupported scheme, raises that error and returns
\* nothing, creates no cache file and leaves every cache file as it was, also
\* when force is set.
C29_FailedGetLeavesCache ==
    [][(last_get'.exc # "" /\ remote' = remote)
       => /\ last_get'.exc = IF IsHttps(last_get'.url) THEN "RemoteNotFetchedException"
                             ELSE "Exception"
          /\ last_get'.content = <<>>
          /\ cache_files' = cache_files]_vars

C29_Witness ==
    /\ last_get.exc = "RemoteNotFetchedException"
    /\ last_get.force
    /\ cache_files[cache_key(last_get.url)].exists

\* ------------------------------------------------- concurrent Cache.get calls

\* The processes that share the cache directory.
Procs == {1, 2}

\* The bodies of the archives fetched as bytes (as_text=False).
ByteBodies == {b \in Bodies : "LF" \notin Range(b)}

Call(at, force, content, offset, returned) ==
    [pc |-> at, force |-> force, content |-> content, offset |-> offset,
     returned |-> returned]

ConcurrentInit ==
    /\ body \in ByteBodies
    /\ \/ cached = NoFile /\ fetched = {}
       \/ \E b \in ByteBodies : cached = [exists |-> TRUE, data |-> b] /\ fetched = {b}
    /\ call \in [Procs -> {Call("check", force, <<>>, 0, <<>>) : force \in BOOLEAN}]
    /\ ResolverIdle /\ CacheIdle /\ FetchIdle /\ ApiIdle /\ ProviderIdle

OtherCalls(p) == UNCHANGED <<resolverVars, cacheVars, fetchVars, apiVars, providerVars>>

\* `if force or not os.path.exists(cached)`
Check(p) ==
    /\ call[p].pc = "check"
    /\ call' = [call EXCEPT ![p].pc = IF call[p].force \/ ~cached.exists
                                      THEN "fetch" ELSE "read"]
    /\ UNCHANGED <<body, fetched, cached>>
    /\ OtherCalls(p)

\* content = get_file_content(...)
Fetch(p) ==
    /\ call[p].pc = "fetch"
    /\ call' = [call EXCEPT ![p].pc = "open", ![p].content = body]
    /\ fetched' = fetched \cup {body}
    /\ UNCHANGED <<body, cached>>
    /\ OtherCalls(p)

\* open(cached, "wb") creates the file or truncates it.
Open(p) ==
    /\ call[p].pc = "open"
    /\ cached' = [exists |-> TRUE, data |-> <<>>]
    /\ call' = [call EXCEPT ![p].pc = "write", ![p].offset = 0]
    /\ UNCHANGED <<body, fetched>>
    /\ OtherCalls(p)

\* The file after `byte` is written at position `at`: a write past the end
\* leaves a hole of zero bytes.
WriteAt(data, at, byte) ==
    [i \in 1..(IF at > Len(data) THEN at ELSE Len(data)) |->
        IF i = at THEN byte ELSE IF i <= Len(data) THEN data[i] ELSE "NUL"]

\* fo.write(content), one block at the file position of the process; the call
\* returns the content it fetched once the last block is written.
Write(p) ==
    /\ call[p].pc = "write"
    /\ LET at == call[p].offset + 1
       IN  /\ cached' = [cached EXCEPT !.data = WriteAt(cached.data, at, call[p].content[at])]
           /\ call' = [call EXCEPT
                          ![p].offset = at,
                          ![p].pc = IF at = Len(call[p].content) THEN "done" ELSE "write",
                          ![p].returned = IF at = Len(call[p].content)
                                          THEN call[p].content ELSE <<>>]
    /\ UNCHANGED <<body, fetched>>
    /\ OtherCalls(p)

\* return get_local_file_content(path=cached, as_text=as_text)
Read(p) ==
    /\ call[p].pc = "read"
    /\ call' = [call EXCEPT ![p].pc = "done",
                            ![p].returned = get_local_file_content(cached, FALSE)]
    /\ UNCHANGED <<body, fetched, cached>>
    /\ OtherCalls(p)

\* The server comes to answer the url with another body.
BodyChanges ==
    /\ \E new \in ByteBodies : new # body /\ body' = new
    /\ UNCHANGED <<fetched, cached, call>>
    /\ UNCHANGED <<resolverVars, cacheVars, fetchVars, apiVars, providerVars>>

ConcurrentNext ==
    \/ \E p \in Procs : Check(p) \/ Fetch(p) \/ Open(p) \/ Write(p) \/ Read(p)
    \/ BodyChanges

ConcurrentSpec == ConcurrentInit /\ [][ConcurrentNext]_vars

\* C8: under every interleaving of Cache.get calls for one url, a call that
\* returned has returned the complete body of a fetch, and the file that the
\* finished calls leave is the complete body of a fetch.
C8_NoPartialFile ==
    /\ \A p \in Procs : call[p].pc = "done" => call[p].returned \in fetched
    /\ ((\A p \in Procs : call[p].pc = "done") /\ cached.exists) => cached.data \in fetched

\* ------------------------------------------------------ resolve_dependencies

PLATFORMS_BY_OS == {"linux", "macos", "windows"}

PYTHON_DOT_VERSIONS_BY_VER ==
    [ver \in {"27", "36", "37", "38", "39", "310", "311", "312", "313"} |->
        CASE ver = "27" -> "2.7" [] ver = "36" -> "3.6" [] ver = "37" -> "3.7"
          [] ver = "38" -> "3.8" [] ver = "39" -> "3.9" [] ver = "310" -> "3.10"
          [] ver = "311" -> "3.11" [] ver = "312" -> "3.12" [] ver = "313" -> "3.13"]

valid_python_versions ==
    DOMAIN PYTHON_DOT_VERSIONS_BY_VER
    \cup {PYTHON_DOT_VERSIONS_BY_VER[ver] : ver \in DOMAIN PYTHON_DOT_VERSIONS_BY_VER}

\* The arguments callers pass; "" is an argument left out (None).
ApiOperatingSystems == {"", "linux", "macos", "windows", "foo-bar"}

ApiPythonVersions == {"", "38", "3.12", "2.6", "3"}

ApiNetrcFiles == {"", "present.netrc", "missing.netrc"}

ApiInit ==
    /\ api_pc = "validate"
    /\ api_args \in [operating_system : ApiOperatingSystems,
                     python_version : ApiPythonVersions,
                     netrc_file : ApiNetrcFiles,
                     requirement_files : {<<>>, <<"requirements.txt">>},
                     specifiers : {<<>>, <<"a">>},
                     setup_py_file : {"", "setup.py"}]
    /\ home_netrc \in BOOLEAN
    /\ api_events = <<>>
    /\ api_exc = ""
    /\ ResolverIdle /\ CacheIdle /\ FetchIdle /\ ConcurrentIdle /\ ProviderIdle

OtherThanApi == UNCHANGED <<resolverVars, cacheVars, fetchVars, concurrentVars, providerVars>>

\* The checks without the one of an unknown python version.
validate_known_os_only(operating_system_, python_version) ==
    IF operating_system_ = "" THEN "Exception"
    ELSE IF operating_system_ \notin PLATFORMS_BY_OS THEN "ValueError"
    ELSE IF python_version = "" THEN "Exception"
    ELSE ""

\* The outcome of the checks at the head of resolve_dependencies: "" or the
\* exception raised.
validate(operating_system_, python_version) ==
    IF operating_system_ = "" THEN "Exception"
    ELSE IF operating_system_ \notin PLATFORMS_BY_OS THEN "ValueError"
    ELSE IF python_version = "" THEN "Exception"
    ELSE IF python_version \notin valid_python_versions THEN "ValueError"
    ELSE ""

ApiRaise(exc) == api_pc' = "done" /\ api_exc' = exc

ApiValidate ==
    /\ api_pc = "validate"
    /\ LET exc == validate(api_args.operating_system, api_args.python_version)
       IN  IF exc # "" THEN ApiRaise(exc)
           ELSE api_pc' = "netrc" /\ UNCHANGED api_exc
    /\ UNCHANGED <<api_args, home_netrc, api_events>>
    /\ OtherThanApi

\* The netrc file given, or ~/.netrc when there is one, is looked up and read.
ApiNetrc ==
    /\ api_pc = "netrc"
    /\ IF api_args.netrc_file # ""
       THEN IF api_args.netrc_file = "missing.netrc"
            THEN /\ api_events' = api_events \o <<"netrc exists">>
                 /\ ApiRaise("Exception")
            ELSE /\ api_events' = api_events \o <<"netrc exists", "netrc read">>
                 /\ api_pc' = "requirement_files"
                 /\ UNCHANGED api_exc
       ELSE /\ api_events' = api_events \o
                   (IF home_netrc THEN <<"netrc exists", "netrc read">>
                    ELSE <<"netrc exists", "netrc exists">>)
            /\ api_pc' = "requirement_files"
            /\ UNCHANGED api_exc
    /\ UNCHANGED <<api_args, home_netrc>>
    /\ OtherThanApi

ApiRequirementFiles ==
    /\ api_pc = "requirement_files"
    /\ api_events' = api_events \o
           [i \in 1..Len(api_args.requirement_files) |-> "requirements file parsed"]
    /\ api_pc' = "specifiers"
    /\ UNCHANGED <<api_args, home_netrc, api_exc>>
    /\ OtherThanApi

ApiSpecifiers ==
    /\ api_pc = "specifiers"
    /\ api_events' = api_events \o
           [i \in 1..Len(api_args.specifiers) |-> "specifier parsed"]
    /\ api_pc' = "setup_py"
    /\ UNCHANGED <<api_args, home_netrc, api_exc>>
    /\ OtherThanApi

\* The setup.py, when given, is parsed and its python_requires checked; with
\* no direct dependency at all the call returns an empty Resolution.
ApiSetupPy ==
    /\ api_pc = "setup_py"
    /\ IF api_args.setup_py_file # ""
       THEN /\ api_events' = api_events \o <<"setup.py parsed">>
            /\ \E python_requires_ok \in BOOLEAN :
                  IF python_requires_ok
                  THEN /\ \E declares \in BOOLEAN :
                             api_pc' = IF /\ ~declares
                                          /\ api_args.requirement_files = <<>>
                                          /\ api_args.specifiers = <<>>
                                       THEN "done" ELSE "resolve"
                       /\ UNCHANGED api_exc
                  ELSE ApiRaise("Exception")
       ELSE /\ UNCHANGED <<api_events, api_exc>>
            /\ api_pc' = IF api_args.requirement_files = <<>> /\ api_args.specifiers = <<>>
                         THEN "done" ELSE "resolve"
    /\ UNCHANGED <<api_args, home_netrc>>
    /\ OtherThanApi

\* resolve(): the index pages and the distributions come from the cache or the
\* network; the resolver returns its result or raises.
ApiResolve ==
    /\ api_pc = "resolve"
    /\ api_events' = api_events \o <<"cache access", "network request">>
    /\ \E exc \in {"", "ResolutionImpossible", "NoVersionsFound"} :
          IF exc = "" THEN api_pc' = "gather_pypi_data" /\ UNCHANGED api_exc
          ELSE ApiRaise(exc)
    /\ UNCHANGED <<api_args, home_netrc>>
    /\ OtherThanApi

ApiGatherPypiData ==
    /\ api_pc = "gather_pypi_data"
    /\ api_events' = api_events \o <<"network request">>
    /\ api_pc' = "done"
    /\ UNCHANGED <<api_args, home_netrc, api_exc>>
    /\ OtherThanApi

ApiNext ==
    \/ ApiValidate \/ ApiNetrc \/ ApiRequirementFiles \/ ApiSpecifiers
    \/ ApiSetupPy \/ ApiResolve \/ ApiGatherPypiData

ApiSpec == ApiInit /\ [][ApiNext]_vars

MaxCandidates == 3

\* The callers' entry points, and the option as a caller passes it.
Entries == {"PythonInputProvider", "resolve_dependencies"}
SetupOptions == {"unset", "on", "off"}

\* A setup.py and the files next to it: whether setup.py exists, whether the
\* static parse finds dependencies, whether a requirements.txt is referred to
\* and yields requirements, whether setup.py contains "_require", how many
\* statements `setup(...)` it has, and what the first of them passes as
\* install_requires: nothing, an empty list, a list or tuple with elements, or
\* an expression that is no list (a name, a call).
SetupPys ==
    { f \in [exists : BOOLEAN, dependencies : BOOLEAN, requirements_txt : BOOLEAN,
             _require : BOOLEAN, setup_fct : 0..2,
             install_requires : {"none", "empty", "elts", "expression"}] :
        /\ ~f.exists => ~f.dependencies /\ ~f._require /\ f.setup_fct = 0
        /\ f.install_requires # "none" => f._require /\ f.setup_fct > 0
        /\ f.dependencies => ~f.requirements_txt }

\* What a repository has of a candidate.
Distributions == {"wheel", "sdist", "none"}

\* The default of the option at each entry point.
DefaultOption(entry) ==
    CASE entry = "PythonInputProvider" -> TRUE
      [] entry = "resolve_dependencies" -> FALSE

\* The outcome of a step: the setup.py files executed and the exception.
Evaluated(files, exc) == [files |-> files, exc |-> exc]

\* parse_reqs_from_setup_py_insecurely: iter_requirements runs the file.
get_reqs_insecurely(setup_py, location) ==
    IF ~setup_py.exists THEN Evaluated(<<>>, "") ELSE Evaluated(<<location>>, "")

\* The static inspection of setup.py: setup_fct[0], the first install_requires
\* keyword of its call, and the elts of that.
CollectedSecurely(setup_py) ==
    IF setup_py.setup_fct = 0 THEN Evaluated(<<>>, "IndexError")
    ELSE CASE setup_py.install_requires = "none" -> Evaluated(<<>>, "")
           [] setup_py.install_requires = "empty" -> Evaluated(<<>>, "")
           [] setup_py.install_requires = "elts" -> Evaluated(<<>>, "Exception")
           [] setup_py.install_requires = "expression" -> Evaluated(<<>>, "AttributeError")

get_requirements_from_python_manifest(setup_py, location, analyze) ==
    IF setup_py.requirements_txt THEN Evaluated(<<>>, "")
    ELSE IF setup_py._require
         THEN IF analyze THEN get_reqs_insecurely(setup_py, location)
              ELSE CollectedSecurely(setup_py)
         ELSE Evaluated(<<>>, "")

\* resolve_dependencies on its setup_py_file argument.
DirectSetupPy(setup_py, analyze) ==
    IF analyze THEN get_reqs_insecurely(setup_py, "direct")
    ELSE IF ~setup_py.dependencies
         THEN get_requirements_from_python_manifest(setup_py, "direct", analyze)
         ELSE Evaluated(<<>>, "")

_get_requirements_for_package_from_pypi_simple(distribution, setup_py, analyze) ==
    IF distribution # "sdist" THEN Evaluated(<<>>, "")
    ELSE IF analyze THEN get_reqs_insecurely(setup_py, "sdist")
         ELSE IF setup_py.dependencies THEN Evaluated(<<>>, "")
              ELSE get_requirements_from_python_manifest(setup_py, "sdist", analyze)

SetupInit ==
    /\ setup_pc = "call"
    /\ setup_args \in [entry : Entries, option : SetupOptions,
                       setup_py_file : BOOLEAN]
    /\ setup_args.setup_py_file => setup_args.entry = "resolve_dependencies"
    /\ analyze_setup_py_insecurely = FALSE
    /\ iter_requirements = <<>>
    /\ extracted = 0
    /\ setup_exc = ""
    /\ repos = <<>>
    /\ provider_call = NoCall
    /\ MemoIdle /\ RepositoryIdle /\ PhaseIdle
    /\ ResolverIdle /\ CacheIdle /\ FetchIdle /\ ConcurrentIdle /\ ApiIdle

OtherThanSetup ==
    UNCHANGED <<resolverVars, cacheVars, fetchVars, concurrentVars, apiVars, repos,
                provider_call, memoVars, repositoryVars, phaseVars>>

\* The entry point binds the option: the value passed, or its default.
SetupCall ==
    /\ setup_pc = "call"
    /\ analyze_setup_py_insecurely' =
          IF setup_args.option = "unset" THEN DefaultOption(setup_args.entry)
          ELSE setup_args.option = "on"
    /\ setup_pc' = IF setup_args.entry = "resolve_dependencies" THEN "direct" ELSE "provider"
    /\ UNCHANGED <<setup_args, iter_requirements, extracted, setup_exc>>
    /\ OtherThanSetup

\* resolve_dependencies handles its setup.py, then builds the provider with
\* the option it holds.
SetupDirect ==
    /\ setup_pc = "direct"
    /\ \E setup_py \in SetupPys :
       \E done \in {IF setup_args.setup_py_file /\ setup_py.exists
                     THEN DirectSetupPy(setup_py, analyze_setup_py_insecurely)
                     ELSE Evaluated(<<>>, "")} :
          /\ iter_requirements' = iter_requirements \o done.files
          /\ setup_exc' = done.exc
          /\ setup_pc' = IF done.exc # "" THEN "done" ELSE "provider"
    /\ UNCHANGED <<setup_args, analyze_setup_py_insecurely, extracted>>
    /\ OtherThanSetup

\* The provider extracts the requirements of one more candidate.
SetupCandidate ==
    /\ setup_pc = "provider"
    /\ extracted < MaxCandidates
    /\ \E distribution \in Distributions, setup_py \in SetupPys :
       \E done \in {_get_requirements_for_package_from_pypi_simple(
                        distribution, setup_py, analyze_setup_py_insecurely)} :
          /\ iter_requirements' = iter_requirements \o done.files
          /\ setup_exc' = done.exc
          /\ extracted' = extracted + 1
          /\ setup_pc' = IF done.exc # "" THEN "done" ELSE "provider"
    /\ UNCHANGED <<setup_args, analyze_setup_py_insecurely>>
    /\ OtherThanSetup

SetupReturn ==
    /\ setup_pc = "provider"
    /\ setup_pc' = "done"
    /\ UNCHANGED <<setup_args, analyze_setup_py_insecurely, iter_requirements,
                   extracted, setup_exc>>
    /\ OtherThanSetup

SetupNext == SetupCall \/ SetupDirect \/ SetupCandidate \/ SetupReturn

SetupSpec == SetupInit /\ [][SetupNext]_vars

\* C11: a setup.py is executed by iter_requirements only in runs whose caller
\* passed analyze_setup_py_insecurely as true; a provider or an orchestrator
\* used without setting the option never executes one, neither the direct
\* setup.py nor the setup.py of a downloaded sdist.
C11_SetupPyExecutedOnlyWhenEnabled ==
    iter_requirements # <<>> => setup_args.option = "on"

\* C26: with analyze_setup_py_insecurely off the extraction of requirements
\* from a setup.py ends without an error or with the error of a non-empty
\* install_requires list ("Unable to collect setup.py dependencies
\* securely"), and with no other error.
C26_OnlyTheSecureErrorIsRaised ==
    setup_pc = "done" /\ ~analyze_setup_py_insecurely => setup_exc \in {"", "Exception"}

\* ------------------------------------------- the provider's matching functions

\* The index pages a repository serves for a package: a failed fetch, or at
\* most two versions.
PagePool ==
    {NotFetched} \cup {Listed(S) : S \in {T \in SUBSET Versions : Cardinality(T) <= 2}}

\* The repositories of a provider: none (the PyPI JSON API answers), or one
\* or two that serve a page for "a".
RepoPool ==
    LET repo(page) == [n \in Names |-> IF n = "a" THEN page ELSE Listed({})]
    IN  {<<>>} \cup {<<repo(p)>> : p \in PagePool}
               \cup {<<repo(p), repo(q)>> : p, q \in PagePool}

\* The requirements the resolver holds for "a": one, with or without an
\* extra, or two.
MatchSpecifiers == SpecifierPool \cup {{Clause(">=", 1)}, {Clause(">=", 2)}}

RequirementLists ==
    {<<Requirement("a", e, x, NoMarker)>> : e \in {NoExtras, {"x"}}, x \in MatchSpecifiers}
    \cup {<<Requirement("a", NoExtras, x, NoMarker), Requirement("a", NoExtras, y, NoMarker)>> :
              x, y \in MatchSpecifiers}

\* The candidates the resolver has marked incompatible: none or one.
IncompatibilityLists ==
    {<<>>} \cup {<<Candidate("a", v, NoExtras)>> : v \in Versions}

ProviderInit ==
    /\ repos \in RepoPool
    /\ \E listed \in {page.versions : page \in PagePool} :
          index = [n \in Names |->
                     IF n # "a" THEN {}
                     ELSE IF repos = <<>> THEN listed
                     ELSE UNION {get_package_versions(repos[i][n]) : i \in 1..Len(repos)}]
    /\ ignore_errors \in BOOLEAN
    /\ metadata = <<>>
    /\ direct_dependencies = <<>>
    /\ operating_system = "linux"
    /\ max_rounds = 0
    /\ states = <<>>
    /\ round_index = 0
    /\ pc = "idle"
    /\ outcome = ""
    /\ result = NoResult
    /\ rejected = {}
    /\ discarded = {}
    /\ \E requirements \in RequirementLists, incompatibilities \in IncompatibilityLists :
          provider_call = [fn |-> "", result |-> <<>>,
                           args |-> [requirements |-> requirements,
                                     incompatibilities |-> incompatibilities,
                                     parsed_version |-> 0]]
    /\ SetupIdle /\ MemoIdle /\ RepositoryIdle /\ PhaseIdle
    /\ CacheIdle /\ FetchIdle /\ ConcurrentIdle /\ ApiIdle

OtherThanCall ==
    UNCHANGED <<resolverVars, cacheVars, fetchVars, concurrentVars, apiVars, repos, setupVars,
                memoVars, repositoryVars, phaseVars>>

\* The arguments the resolver passes for an identifier.
Identified == identify(provider_call.args.requirements[1])

BadVersions ==
    {provider_call.args.incompatibilities[i].version :
        i \in 1..Len(provider_call.args.incompatibilities)}

\* provider.find_matches(identifier, requirements, incompatibilities)
FindMatches ==
    /\ provider_call.fn = ""
    /\ provider_call' =
          [provider_call EXCEPT
              !.fn = "find_matches",
              !.result = find_matches(Identified, provider_call.args.requirements,
                                      provider_call.args.incompatibilities)]
    /\ OtherThanCall

\* is_valid_version(parsed_version, requirements, identifier, bad_versions)
IsValidVersion ==
    /\ provider_call.fn = ""
    /\ \E parsed_version \in Versions :
          provider_call' =
             [provider_call EXCEPT
                 !.fn = "is_valid_version",
                 !.args.parsed_version = parsed_version,
                 !.result = is_valid_version(parsed_version, provider_call.args.requirements,
                                             BadVersions)]
    /\ OtherThanCall

ProviderNext == FindMatches \/ IsValidVersion

ProviderSpec == ProviderInit /\ [][ProviderNext]_vars

\* The latest call was find_matches.
FoundMatches == provider_call.fn = "find_matches"

\* The versions the repositories (or the JSON API) list for the package of the
\* latest find_matches, repository by repository.
YieldedBy(i) == get_package_versions(repos[i][remove_extras(Identified)])

KnownVersions ==
    IF repos = <<>> THEN index[remove_extras(Identified)]
    ELSE UNION {YieldedBy(i) : i \in 1..Len(repos)}

\* The known versions that pass is_valid_version for the latest find_matches.
ValidVersions ==
    {v \in KnownVersions :
        is_valid_version(v, provider_call.args.requirements, BadVersions)}

ReturnedVersions ==
    {provider_call.result.value[i].version : i \in 1..Len(provider_call.result.value)}

Synthetic == Returned(<<Candidate("NonExistant", 0, NoExtras)>>)

\* C12 as stated: whenever no version would be a candidate, find_matches
\* raises NoVersionsFound with ignore_errors off and returns exactly the one
\* synthetic candidate 0.0.0 with ignore_errors on.
C12_EmptyResultRaises ==
    FoundMatches /\ ValidVersions = {} =>
       provider_call.result = IF ignore_errors THEN Synthetic ELSE Raised("NoVersionsFound")

\* C12 amended: find_matches raises NoVersionsFound (ignore_errors off) or
\* returns exactly the one synthetic candidate 0.0.0 (ignore_errors on) when
\* and only when no version of the package is known; when versions are known
\* it raises nothing and returns candidates of valid versions only, none when
\* no known version is valid.
C12_NoKnownVersionRaises ==
    FoundMatches =>
       IF KnownVersions = {}
       THEN provider_call.result = IF ignore_errors THEN Synthetic
                                   ELSE Raised("NoVersionsFound")
       ELSE /\ provider_call.result.exc = ""
            /\ ReturnedVersions \subseteq ValidVersions
            /\ ValidVersions = {} <=> provider_call.result.value = <<>>

C12_Witness ==
    /\ FoundMatches
    /\ KnownVersions # {} /\ ValidVersions = {}
    /\ provider_call.result = Returned(<<>>)

\* The page of the package of the latest find_matches in repository i, and
\* whether the repository lists a version on it.
PageIn(i) == repos[i][remove_extras(Identified)]

Yields(i) == PageIn(i).exc = "" /\ PageIn(i).versions # {}

\* C13: a failed index fetch in one repository counts as that repository
\* offering no versions and is never propagated: find_matches raises nothing
\* but NoVersionsFound, raises it only when every repository yields no
\* version, and returns the candidates of the versions the other
\* repositories list when at least one repository yields a version.
C13_FailedFetchIsNoVersions ==
    FoundMatches /\ repos # <<>> =>
       /\ provider_call.result.exc \in {"", "NoVersionsFound"}
       /\ provider_call.result.exc = "NoVersionsFound" =>
             \A i \in 1..Len(repos) : ~Yields(i)
       /\ (\E i \in 1..Len(repos) : Yields(i)) =>
             /\ provider_call.result.exc = ""
             /\ \A i \in 1..Len(repos) : \A v \in PageIn(i).versions :
                   is_valid_version(v, provider_call.args.requirements, BadVersions)
                      => provider_call.result.value # <<>>

C13_Witness ==
    /\ FoundMatches
    /\ Len(repos) = 2
    /\ PageIn(1) = NotFetched /\ Yields(2)
    /\ provider_call.result.exc = ""
    /\ ReturnedVersions # {} /\ ReturnedVersions \subseteq PageIn(2).versions

\* A version satisfies a requirement: it is in the specifier, or the
\* specifier is empty.
Satisfies(v, requirement) ==
    requirement.specifier = {} \/ SpecifierSetContains(requirement.specifier, v)

\* C14: is_valid_version is false for a version in bad_versions; otherwise
\* it is true if and only if the version satisfies every requirement, a
\* requirement with an empty specifier being satisfied by every version,
\* pre-releases included.
C14_ValidIffSatisfiesEvery ==
    provider_call.fn = "is_valid_version" =>
       provider_call.result =
          (/\ provider_call.args.parsed_version \notin BadVersions
           /\ \A i \in 1..Len(provider_call.args.requirements) :
                 Satisfies(provider_call.args.parsed_version,
                           provider_call.args.requirements[i]))

\* C15: find_matches returns its candidates in strictly decreasing order of
\* version, so each version at most once, also when several repositories
\* offer the same version.
C15_StrictlyDecreasing ==
    FoundMatches /\ provider_call.result.exc = "" =>
       \A i \in 1..(Len(provider_call.result.value) - 1) :
          provider_call.result.value[i].version > provider_call.result.value[i + 1].version

\* C16: of the known versions that pass is_valid_version, find_matches
\* returns all when every one is a pre-release, and otherwise exactly those
\* that are not pre-releases.
C16_PrereleasesSuppressed ==
    FoundMatches /\ KnownVersions # {} =>
       /\ provider_call.result.exc = ""
       /\ ReturnedVersions =
             IF \A v \in ValidVersions : is_prerelease(v) THEN ValidVersions
             ELSE {v \in ValidVersions : ~is_prerelease(v)}

C16_Witness ==
    /\ FoundMatches /\ provider_call.result.exc = ""
    /\ \E v, w \in ValidVersions : is_prerelease(v) /\ ~is_prerelease(w)
    /\ ReturnedVersions # {}
    /\ \A v \in ReturnedVersions : ~is_prerelease(v)

\* --------------------------------------------- the provider's dependencies

\* The get_dependencies calls made on one provider.
MaxCalls == 3

\* The markers of the requirements a distribution declares.
Markers ==
    {NoMarker, <<"sys_platform", "linux">>, <<"sys_platform", "win32">>,
     <<"platform_system", "Windows">>}

\* What the extractor finds for a purl: no requirement, one, or two.
DependencyLists ==
    {<<>>} \cup {<<Requirement("b", NoExtras, {}, m)>> : m \in Markers}
           \cup {<<Requirement("b", NoExtras, {}, m), Requirement("c", NoExtras, {}, n)>> :
                    m, n \in Markers}

\* PackageURL(type="pypi", name=name, version=str(candidate.version))
Purl(candidate) == <<canonicalize_name(candidate.name), candidate.version>>

DependencyCandidates ==
    {Candidate("a", v, e) : v \in {2, MaxVersion}, e \in {NoExtras, {"x"}, {"x", "y"}}}

DependenciesInit ==
    /\ metadata \in [{Purl(c) : c \in DependencyCandidates} -> DependencyLists]
    /\ operating_system \in {"linux", "windows"}
    /\ dependencies_by_purl = [purl \in DOMAIN metadata |-> [stored |-> FALSE, value |-> <<>>]]
    /\ extractions = [purl \in DOMAIN metadata |-> 0]
    /\ calls = 0
    /\ provider_call = NoCall
    /\ index = <<>>
    /\ direct_dependencies = <<>>
    /\ ignore_errors = FALSE
    /\ max_rounds = 0
    /\ states = <<>>
    /\ round_index = 0
    /\ pc = "idle"
    /\ outcome = ""
    /\ result = NoResult
    /\ rejected = {}
    /\ discarded = {}
    /\ repos = <<>>
    /\ SetupIdle /\ RepositoryIdle /\ PhaseIdle
    /\ CacheIdle /\ FetchIdle /\ ConcurrentIdle /\ ApiIdle

\* provider.get_dependencies(candidate): get_requirements_for_package returns
\* the stored list unless `not dependencies`, and fill_requirements_for_package
\* extracts the requirements and stores them.
GetDependencies ==
    /\ calls < MaxCalls
    /\ \E candidate \in DependencyCandidates :
       \E purl \in {Purl(candidate)} :
          IF dependencies_by_purl[purl].value # <<>>
          THEN /\ provider_call' =
                     [fn |-> "get_dependencies", args |-> [candidate |-> candidate],
                      result |-> _iter_dependencies(candidate, dependencies_by_purl[purl].value)]
               /\ UNCHANGED <<dependencies_by_purl, extractions>>
          ELSE \E extracted_requirements \in
                     {get_requirements_for_package(purl[1], purl[2])} :
                  /\ extractions' = [extractions EXCEPT ![purl] = @ + 1]
                  /\ dependencies_by_purl' =
                        [dependencies_by_purl EXCEPT
                            ![purl] = [stored |-> TRUE, value |-> extracted_requirements]]
                  /\ provider_call' =
                        [fn |-> "get_dependencies", args |-> [candidate |-> candidate],
                         result |-> _iter_dependencies(candidate, extracted_requirements)]
    /\ calls' = calls + 1
    /\ UNCHANGED <<resolverVars, cacheVars, fetchVars, concurrentVars, apiVars, repos, setupVars,
                   repositoryVars, phaseVars>>

DependenciesSpec == DependenciesInit /\ [][GetDependencies]_vars

\* C17: over any sequence of get_dependencies calls on one provider, the
\* requirements of a purl are extracted at most once, whether or not the
\* candidate has dependencies.
C17_ExtractedAtMostOnce ==
    \A purl \in DOMAIN extractions : extractions[purl] <= 1

\* The latest call was get_dependencies, and its candidate.
GotDependencies == provider_call.fn = "get_dependencies"

Asked == provider_call.args.candidate

\* The requirements the extractor finds for the candidate whose marker is
\* absent or holds in the environment of the provider.
MarkerFiltered ==
    SelectSeq(metadata[Purl(Asked)],
              LAMBDA r : \/ r.marker = NoMarker
                         \/ get_environment_marker_from_environment(operating_system)
                               [r.marker[1]] = r.marker[2])

SelfRequirement ==
    Requirement(Asked.name, NoExtras, {Clause("==", Asked.version)}, NoMarker)

\* C20 as stated: get_dependencies returns one synthetic name==version
\* requirement on the bare name for each extra of the candidate, followed by
\* exactly the extracted requirements whose marker is absent or true.
C20_SelfRequirementPerExtra ==
    GotDependencies =>
       provider_call.result =
          [i \in 1..Cardinality(Asked.extras) |-> SelfRequirement] \o MarkerFiltered

\* C20 amended: get_dependencies returns one synthetic name==version
\* requirement on the bare name when the candidate has at least one extra
\* (one, however many extras), followed by exactly the extracted
\* requirements whose marker is absent or true, in their order.
C20_OneSelfRequirement ==
    GotDependencies =>
       provider_call.result =
          (IF Asked.extras # {} THEN <<SelfRequirement>> ELSE <<>>) \o MarkerFiltered

C20_Witness ==
    /\ GotDependencies
    /\ Cardinality(Asked.extras) = 2
    /\ Len(metadata[Purl(Asked)]) = 2
    /\ Len(MarkerFiltered) = 1
    /\ provider_call.result = <<SelfRequirement>> \o MarkerFiltered

\* ------------------------------------------------- one PypiSimpleRepository

\* The names a caller passes, and NameVer.normalize_name on them.
RawNames == {"a", "A", "b"}

normalize_name(name) == IF name = "A" THEN "a" ELSE name

\* The index pages the server has: a failure, no distribution, or versions.
ServedPages == {NotFetched, Listed({}), Listed({2}), Listed({2, MaxVersion})}

RepositoryInit ==
    /\ \E a, b \in ServedPages :
          repos = <<[n \in Names |-> CASE n = "a" -> a [] n = "b" -> b [] OTHER -> Listed({})]>>
    /\ packages = [n \in Names |-> {}]
    /\ fetched_package_normalized_names = {}
    /\ fetches = [n \in Names |-> 0]
    /\ calls = 0
    /\ dependencies_by_purl = <<>>
    /\ extractions = <<>>
    /\ provider_call = NoCall
    /\ SetupIdle /\ PhaseIdle
    /\ ResolverIdle /\ CacheIdle /\ FetchIdle /\ ConcurrentIdle /\ ApiIdle

\* _get_package_versions_map fetching whenever it holds no version.
MustFetchWhenEmpty(versions, normalized_name) == versions = {}

\* _get_package_versions_map: whether the index page is fetched.
MustFetch(versions, normalized_name) ==
    versions = {} /\ normalized_name \notin fetched_package_normalized_names

\* get_package_versions(name) and get_package_version(name, version): the
\* mapping of _get_package_versions_map, or the package of a version (of the
\* latest one for version 0, Python's None) if there is one.
PackageOf(versions, version) ==
    IF version = 0
    THEN IF versions = {} THEN {} ELSE {CHOOSE v \in versions : \A w \in versions : w <= v}
    ELSE versions \cap {version}

RepositoryCall ==
    /\ calls < MaxCalls
    /\ \E fn \in {"get_package_versions", "get_package_version"}, name \in RawNames,
          version \in {0, 2} :
       \E normalized_name \in {normalize_name(name)} :
       \E page \in {repos[1][normalized_name]} :
       \E fetch \in {MustFetch(packages[normalized_name], normalized_name)} :
       \E versions \in {IF fetch /\ page.exc = "" THEN page.versions
                        ELSE packages[normalized_name]} :
          /\ fn = "get_package_versions" => version = 0
          /\ fetched_package_normalized_names' =
                IF fetch THEN fetched_package_normalized_names \cup {normalized_name}
                ELSE fetched_package_normalized_names
          /\ fetches' = IF fetch THEN [fetches EXCEPT ![normalized_name] = @ + 1] ELSE fetches
          /\ packages' = [packages EXCEPT ![normalized_name] = versions]
          /\ provider_call' =
                [fn |-> fn, args |-> [name |-> name, version |-> version],
                 result |-> IF fn = "get_package_versions" THEN versions
                            ELSE PackageOf(versions, version)]
    /\ calls' = calls + 1
    /\ UNCHANGED <<resolverVars, cacheVars, fetchVars, concurrentVars, apiVars, repos, setupVars,
                   dependencies_by_purl, extractions, phaseVars>>

RepositorySpec == RepositoryInit /\ [][RepositoryCall]_vars

\* C18: over any sequence of get_package_versions and get_package_version
\* calls on one repository, the index page of a normalized name is fetched at
\* most once, whether the fetch succeeded, failed or listed no distribution.
C18_PageFetchedAtMostOnce ==
    \A n \in DOMAIN fetches : fetches[n] <= 1

\* Three calls for "a" under two spellings, whose page failed to be fetched.
C18_Witness ==
    /\ calls = MaxCalls
    /\ provider_call.fn = "get_package_version" /\ provider_call.args.name = "A"
    /\ repos[1]["a"] = NotFetched
    /\ fetches = [n \in Names |-> IF n = "a" THEN 1 ELSE 0]

\* ---------------------------------------------- the phases of a resolution

\* The direct requirements, and the packages of a resolution.
MaxTasks == 3

Phases == {"A", "B", "C"}

\* asyncio.gather(*[...]) over n items: no task has started.
Gathered(n) == [i \in 1..n |-> "pending"]

PhaseInit ==
    /\ phase_pc = "A"
    /\ \E n \in 1..MaxTasks :
          tasks = [phase \in Phases |-> IF phase = "C" THEN <<>> ELSE Gathered(n)]
    /\ versions_by_package = <<>>
    /\ repos = <<>>
    /\ provider_call = NoCall
    /\ SetupIdle /\ MemoIdle /\ RepositoryIdle
    /\ ResolverIdle /\ CacheIdle /\ FetchIdle /\ ConcurrentIdle /\ ApiIdle

OtherThanPhases ==
    UNCHANGED <<resolverVars, cacheVars, fetchVars, concurrentVars, apiVars, repos, setupVars,
                provider_call, memoVars, repositoryVars, versions_by_package>>

\* asyncio.run returning as soon as one task of the batch is done.
AnyDone(batch) == \E i \in 1..Len(batch) : batch[i] = "done"

\* asyncio.run(gather(...)) returns when every task of the batch is done.
AllDone(batch) == \A i \in 1..Len(batch) : batch[i] = "done"

\* The event loop starts a task of the batch that is running.
TaskStart ==
    /\ phase_pc \in Phases
    /\ \E i \in 1..Len(tasks[phase_pc]) :
          /\ tasks[phase_pc][i] = "pending"
          /\ tasks' = [tasks EXCEPT ![phase_pc][i] = "running"]
    /\ UNCHANGED phase_pc
    /\ OtherThanPhases

\* A task returns, or raises.
TaskEnd ==
    /\ phase_pc \in Phases
    /\ \E i \in 1..Len(tasks[phase_pc]), how \in {"done", "failed"} :
          /\ tasks[phase_pc][i] = "running"
          /\ tasks' = [tasks EXCEPT ![phase_pc][i] = how]
    /\ UNCHANGED phase_pc
    /\ OtherThanPhases

\* gather raises the exception of a task: asyncio.run cancels the tasks
\* left and the exception leaves resolve_dependencies.
BatchRaise ==
    /\ phase_pc \in Phases
    /\ \E i \in 1..Len(tasks[phase_pc]) : tasks[phase_pc][i] = "failed"
    /\ tasks' = [tasks EXCEPT ![phase_pc] =
                    [i \in 1..Len(@) |-> IF @[i] \in {"pending", "running"}
                                         THEN "cancelled" ELSE @[i]]]
    /\ phase_pc' = "raised"
    /\ OtherThanPhases

\* asyncio.run returns: the statement after it runs.
BatchReturn ==
    /\ phase_pc \in Phases
    /\ AllDone(tasks[phase_pc])
    /\ phase_pc' = CASE phase_pc = "A" -> "B" [] phase_pc = "B" -> "resolve"
                      [] phase_pc = "C" -> "done"
    /\ UNCHANGED tasks
    /\ OtherThanPhases

\* resolver.resolve: its first round, then its return with the packages of
\* the resolution, or its exception.
ResolverRounds ==
    /\ \/ /\ phase_pc = "resolve"
          /\ phase_pc' = "rounds"
          /\ UNCHANGED tasks
       \/ /\ phase_pc = "rounds"
          /\ \E purls \in 0..MaxTasks :
                /\ tasks' = [tasks EXCEPT !["C"] = Gathered(purls)]
                /\ phase_pc' = "C"
       \/ /\ phase_pc \in {"resolve", "rounds"}
          /\ phase_pc' = "raised"
          /\ UNCHANGED tasks
    /\ OtherThanPhases

PhaseNext == TaskStart \/ TaskEnd \/ BatchRaise \/ BatchReturn \/ ResolverRounds

PhaseSpec == PhaseInit /\ [][PhaseNext]_vars

\* A task of the phase has started; every task of the phase has completed.
Started(phase) == \E i \in 1..Len(tasks[phase]) : tasks[phase][i] # "pending"

Completed(phase) == \A i \in 1..Len(tasks[phase]) : tasks[phase][i] = "done"

\* C19: the phases never overlap: every Phase A task has completed before a
\* Phase B task starts, every Phase B task has completed before the
\* resolver's first round, and no Phase C fetch starts before the resolver
\* has returned.
C19_PhasesNeverOverlap ==
    phase_pc # "idle" =>
       /\ Started("B") => Completed("A")
       /\ phase_pc \in {"rounds", "C", "done"} => Completed("A") /\ Completed("B")
       /\ phase_pc \in {"A", "B", "resolve", "rounds"} => ~Started("C")

C19_Witness ==
    /\ phase_pc = "C"
    /\ Len(tasks["A"]) = MaxTasks
    /\ \E i, j \in 1..Len(tasks["C"]) : tasks["C"][i] = "running" /\ tasks["C"][j] = "done"

\* C21: on windows a dependency guarded by the marker sys_platform == "win32"
\* is kept by the marker filtering and on linux it is dropped, so that the
\* dependencies for windows and for linux differ exactly by it.
C21_Win32KeptOnWindowsOnly ==
    GotDependencies =>
       \A i \in 1..Len(metadata[Purl(Asked)]) :
          metadata[Purl(Asked)][i].marker = <<"sys_platform", "win32">> =>
             ((\E j \in 1..Len(provider_call.result) :
                  provider_call.result[j] = metadata[Purl(Asked)][i])
              <=> operating_system = "windows")

\* ---------------------------------------------------------------------------
\* Distribution filenames (utils_pypi.py): Wheel.from_filename, Sdist.from_filename
\* and to_filename.  A string is a sequence of one-character strings.
\* ---------------------------------------------------------------------------
Digits == {"0", "1", "2", "3", "4", "5", "6", "7", "8", "9"}

Letters == {"a", "b", "c", "d", "e", "g", "h", "i", "l", "n", "o", "p", "r", "s", "t",
            "u", "w", "x", "y", "z", "B"}

startswith(s, prefix) == Len(prefix) <= Len(s) /\ SubSeq(s, 1, Len(prefix)) = prefix

endswith(s, suffix) ==
    Len(suffix) <= Len(s) /\ SubSeq(s, Len(s) - Len(suffix) + 1, Len(s)) = suffix

\* word in s
contains(s, word) ==
    \E i \in 1..(Len(s) - Len(word) + 1) : SubSeq(s, i, i + Len(word) - 1) = word

\* s.replace(old, new) for one-character old and new
replace(s, old, new) == [i \in 1..Len(s) |-> IF s[i] = old THEN new ELSE s[i]]

RECURSIVE split(_, _)
\* s.split(sep)
split(s, sep) ==
    IF \A i \in 1..Len(s) : s[i] # sep THEN <<s>>
    ELSE <<SubSeq(s, 1, (CHOOSE i \in 1..Len(s) :
                            s[i] = sep /\ \A j \in 1..(i - 1) : s[j] # sep) - 1)>>
         \o split(SubSeq(s, (CHOOSE i \in 1..Len(s) :
                                s[i] = sep /\ \A j \in 1..(i - 1) : s[j] # sep) + 1, Len(s)),
                  sep)

RECURSIVE join(_, _)
\* sep.join(parts)
join(parts, sep) ==
    IF parts = <<>> THEN <<>>
    ELSE IF Len(parts) = 1 THEN parts[1]
    ELSE parts[1] \o <<sep>> \o join(Tail(parts), sep)

\* s.rpartition("-"): the position of the last "-", 0 when there is none
LastHyphen(s) ==
    IF \A i \in 1..Len(s) : s[i] # "-" THEN 0
    ELSE CHOOSE i \in 1..Len(s) : s[i] = "-" /\ \A j \in (i + 1)..Len(s) : s[j] # "-"

RECURSIVE strip_slashes(_)
\* filename.strip("/")
strip_slashes(s) ==
    IF s # <<>> /\ s[1] = "/" THEN strip_slashes(Tail(s))
    ELSE IF s # <<>> /\ s[Len(s)] = "/" THEN strip_slashes(SubSeq(s, 1, Len(s) - 1))
    ELSE s

\* os.path.basename(filename)
basename(s) == split(s, "/")[Len(split(s, "/"))]

RECURSIVE unquote(_)
\* urllib.parse.unquote on the escapes of the model: %2B is "+"
unquote(s) ==
    IF s = <<>> THEN <<>>
    ELSE IF startswith(s, <<"%", "2", "B">>) THEN <<"+">> \o unquote(SubSeq(s, 4, Len(s)))
    ELSE <<s[1]>> \o unquote(Tail(s))

get_filename(filename) == unquote(basename(strip_slashes(filename)))

DotWhl == <<".", "w", "h", "l">>
DotZip == <<".", "z", "i", "p">>
DotTarGz == <<".", "t", "a", "r", ".", "g", "z">>
DotTarXz == <<".", "t", "a", "r", ".", "x", "z">>

EXTENSIONS_SDIST == <<DotTarGz, DotZip, DotTarXz>>

NoDistribution ==
    [class |-> "", name |-> <<>>, version |-> <<>>, build |-> <<>>, extension |-> <<>>,
     python_versions |-> <<>>, abis |-> <<>>, platforms |-> <<>>, tags |-> {},
     filename |-> <<>>]

Hyphens(s) == {i \in 1..Len(s) : s[i] = "-"}

Least(S) == CHOOSE x \in S : \A y \in S : x <= y

\* -(?P<pyvers>.+?)-(?P<abis>.+?)-(?P<plats>.+?) from the hyphen at k to the
\* end of s: the hyphens l and m that end pyvers and abis.
TagsAfter(s, k) ==
    {lm \in Hyphens(s) \X Hyphens(s) : lm[1] >= k + 2 /\ lm[2] >= lm[1] + 2 /\ lm[2] < Len(s)}

\* (-(?P<build>\d[^-]*?)) after the hyphen at j: the hyphen that ends build.
BuildAfter(s, j) ==
    {k \in Hyphens(s) : /\ k >= j + 2
                        /\ s[j + 1] \in Digits
                        /\ \A x \in (j + 1)..(k - 1) : s[x] # "-"
                        /\ TagsAfter(s, k) # {}}

\* ^(?P<name>.+?)-(?P<ver>.*?) ... : the hyphens i and j that end name and ver.
NameVerAt(s) ==
    {ij \in Hyphens(s) \X Hyphens(s) :
        /\ ij[1] >= 2 /\ ij[2] > ij[1]
        /\ (BuildAfter(s, ij[2]) # {} \/ TagsAfter(s, ij[2]) # {})}

\* The groups of the match at the hyphens i, j, k (k = j without a build), l, m.
Groups(s, i, j, k, l, m) ==
    [name |-> SubSeq(s, 1, i - 1), ver |-> SubSeq(s, i + 1, j - 1),
     build |-> SubSeq(s, j + 1, k - 1), pyvers |-> SubSeq(s, k + 1, l - 1),
     abis |-> SubSeq(s, l + 1, m - 1), plats |-> SubSeq(s, m + 1, Len(s))]

\* The lazy groups take the first hyphen that lets the rest match and the
\* optional build group is tried before its absence.
GroupsFrom(s, i, j, k) ==
    Groups(s, i, j, k,
           Least({lm[1] : lm \in TagsAfter(s, k)}),
           Least({lm[2] : lm \in {x \in TagsAfter(s, k) :
                                     x[1] = Least({y[1] : y \in TagsAfter(s, k)})}}))

GroupsAt(s, i, j) ==
    GroupsFrom(s, i, j, IF BuildAfter(s, j) # {} THEN Least(BuildAfter(s, j)) ELSE j)

\* Wheel.get_wheel_from_filename: the groups of the match on the text before
\* the final ".whl", or no groups.
get_wheel_from_filename(filename) ==
    IF ~endswith(filename, DotWhl) \/ NameVerAt(SubSeq(filename, 1, Len(filename) - 4)) = {}
    THEN <<>>
    ELSE GroupsAt(SubSeq(filename, 1, Len(filename) - 4),
                  Least({ij[1] : ij \in NameVerAt(SubSeq(filename, 1, Len(filename) - 4))}),
                  Least({ij[2] : ij \in
                           {x \in NameVerAt(SubSeq(filename, 1, Len(filename) - 4)) :
                               x[1] = Least({y[1] : y \in
                                        NameVerAt(SubSeq(filename, 1, Len(filename) - 4))})}}))

\* {Tag(x, y, z) for x in python_versions for y in abis for z in platforms}
Tags(python_versions, abis, platforms) ==
    {<<python_versions[x], abis[y], platforms[z]>> :
        x \in 1..Len(python_versions), y \in 1..Len(abis), z \in 1..Len(platforms)}

\* The wheel built from the groups, the version taken as keep_version says.
WheelOf(filename, wheel_info, version) ==
    IF wheel_info = <<>> THEN Raised("InvalidDistributionFilename")
    ELSE Returned([class |-> "Wheel",
                   name |-> replace(wheel_info.name, "_", "-"),
                   version |-> version,
                   build |-> wheel_info.build,
                   extension |-> <<>>,
                   python_versions |-> split(wheel_info.pyvers, "."),
                   abis |-> split(wheel_info.abis, "."),
                   platforms |-> split(wheel_info.plats, "."),
                   tags |-> Tags(split(wheel_info.pyvers, "."), split(wheel_info.abis, "."),
                                 split(wheel_info.plats, ".")),
                   filename |-> filename])

\* Wheel.from_filename with the version group left as it is in the filename.
Wheel_from_filename_keeping_version(filename) ==
    WheelOf(get_filename(filename), get_wheel_from_filename(get_filename(filename)),
            IF get_wheel_from_filename(get_filename(filename)) = <<>> THEN <<>>
            ELSE get_wheel_from_filename(get_filename(filename)).ver)

\* Wheel.from_filename
Wheel_from_filename(filename) ==
    WheelOf(get_filename(filename), get_wheel_from_filename(get_filename(filename)),
            IF get_wheel_from_filename(get_filename(filename)) = <<>> THEN <<>>
            ELSE replace(get_wheel_from_filename(get_filename(filename)).ver, "_", "-"))

\* Wheel.to_filename
Wheel_to_filename(self) ==
    self.name \o <<"-">> \o self.version
    \o (IF self.build # <<>> THEN <<"-">> \o self.build ELSE <<>>)
    \o <<"-">> \o join(self.python_versions, ".")
    \o <<"-">> \o join(self.abis, ".")
    \o <<"-">> \o join(self.platforms, ".") \o DotWhl

\* The extension of EXTENSIONS_SDIST the filename ends with, first one first.
SdistExtension(filename) ==
    IF \A e \in 1..Len(EXTENSIONS_SDIST) : ~endswith(filename, EXTENSIONS_SDIST[e]) THEN <<>>
    ELSE EXTENSIONS_SDIST[Least({e \in 1..Len(EXTENSIONS_SDIST) :
                                    endswith(filename, EXTENSIONS_SDIST[e])})]

isalpha(s) == s # <<>> /\ \A i \in 1..Len(s) : s[i] \in Letters
isdigit(s) == s # <<>> /\ \A i \in 1..Len(s) : s[i] \in Digits

\* The tests of get_sdist_name_ver_ext on the name and the version.
WeirdVersion(name, version) ==
    \/ contains(version, <<"x", "8", "6", "_", "6", "4">>)
    \/ contains(version, <<"i", "3", "8", "6">>)
    \/ isalpha(version)
    \/ contains(version, <<"-">>)
    \/ (isdigit(version) /\ Len(version) = 1)
    \/ (Len(version) = 2 /\ version[1] = "r" /\ isdigit(<<version[2]>>))
    \/ (~contains(version, <<".">>) /\ Len(version) < 3)
    \/ (endswith(name, <<"d", "e", "v">>) /\ ~contains(version, <<".">>))
    \/ startswith(version, <<"b", "e", "t", "a">>)
    \/ startswith(version, <<"r", "c">>)
    \/ startswith(version, <<"p", "r", "e">>)
    \/ startswith(version, <<"p", "o", "s", "t">>)
    \/ startswith(version, <<"f", "i", "n", "a", "l">>)

\* name, version, extension of name_ver and extension, or False (<<>>)
NameVerExt(name_ver, extension) ==
    IF extension = <<>> \/ name_ver = <<>> \/ LastHyphen(name_ver) <= 1
       \/ LastHyphen(name_ver) = Len(name_ver)
    THEN <<>>
    ELSE IF WeirdVersion(SubSeq(name_ver, 1, LastHyphen(name_ver) - 1),
                         SubSeq(name_ver, LastHyphen(name_ver) + 1, Len(name_ver)))
    THEN <<>>
    ELSE [name |-> SubSeq(name_ver, 1, LastHyphen(name_ver) - 1),
          version |-> SubSeq(name_ver, LastHyphen(name_ver) + 1, Len(name_ver)),
          extension |-> extension]

get_sdist_name_ver_ext(filename) ==
    NameVerExt(SubSeq(filename, 1, Len(filename) - Len(SdistExtension(filename))),
               SdistExtension(filename))

\* Sdist.from_filename
Sdist_from_filename(filename) ==
    IF get_sdist_name_ver_ext(get_filename(filename)) = <<>>
    THEN Raised("InvalidDistributionFilename")
    ELSE Returned([class |-> "Sdist",
                   name |-> get_sdist_name_ver_ext(get_filename(filename)).name,
                   version |-> get_sdist_name_ver_ext(get_filename(filename)).version,
                   build |-> <<>>,
                   extension |-> get_sdist_name_ver_ext(get_filename(filename)).extension,
                   python_versions |-> <<>>, abis |-> <<>>, platforms |-> <<>>, tags |-> {},
                   filename |-> get_filename(filename)])

\* Sdist.to_filename: f"{self.name}-{self.version}.{self.extension}"
Sdist_to_filename(self) == self.name \o <<"-">> \o self.version \o <<".">> \o self.extension

\* Distribution.get_dist_class and Distribution.from_filename
from_filename(filename) ==
    IF endswith(filename, DotWhl) THEN Wheel_from_filename(filename)
    ELSE IF endswith(filename, DotZip) \/ endswith(filename, DotTarGz)
    THEN Sdist_from_filename(filename)
    ELSE Raised("InvalidDistributionFilename")

to_filename(self) ==
    IF self.class = "Wheel" THEN Wheel_to_filename(self) ELSE Sdist_to_filename(self)

\* The filenames parsed: a directory prefix, then a wheel or an sdist filename
\* built from parts, and two filenames that are not distributions.
Prefixes == {<<>>, <<"/">>, <<"x", "/">>}

WheelFilenames ==
    {name \o <<"-">> \o version \o build \o <<"-">> \o pyvers \o <<"-", "n", "o", "n", "e", "-">>
     \o plats \o DotWhl :
        name \in {<<"a">>, <<"a", "_", "b">>},
        version \in {<<"1", ".", "0">>, <<"1", ".", "0", "_", "1">>,
                     <<"1", ".", "0", "%", "2", "B", "c">>},
        build \in {<<>>, <<"-", "1">>},
        pyvers \in {<<"p", "y", "3">>, <<"p", "y", "2", ".", "p", "y", "3">>},
        plats \in {<<"a", "n", "y">>, <<"w", "i", "n", "_", "a", "m", "d", "6", "4">>}}

SdistFilenames ==
    {name \o <<"-">> \o version \o extension :
        name \in {<<"a">>, <<"a", "-", "b">>},
        version \in {<<"1", ".", "0">>, <<"2", "0", "2", "4">>, <<"1">>},
        extension \in {DotTarGz, DotZip, DotTarXz}}

Filenames ==
    {prefix \o filename : prefix \in Prefixes,
                          filename \in WheelFilenames \cup SdistFilenames
                                       \cup {<<"a", ".", "w", "h", "l">>}}

FilenameInit ==
    /\ provider_call \in
          {[fn |-> "", args |-> [filename |-> filename, w |-> NoDistribution, rebuilt |-> <<>>],
            result |-> <<>>] : filename \in Filenames}
    /\ repos = <<>>
    /\ SetupIdle /\ MemoIdle /\ RepositoryIdle /\ PhaseIdle
    /\ ResolverIdle /\ CacheIdle /\ FetchIdle /\ ConcurrentIdle /\ ApiIdle

\* w = Distribution.from_filename(filename)
FromFilename ==
    /\ provider_call.fn = ""
    /\ provider_call' =
          [fn |-> "from_filename",
           args |-> [provider_call.args EXCEPT
                        !.w = IF from_filename(provider_call.args.filename).exc = ""
                              THEN from_filename(provider_call.args.filename).value
                              ELSE NoDistribution],
           result |-> from_filename(provider_call.args.filename)]
    /\ OtherThanCall

\* w.to_filename()
ToFilename ==
    /\ provider_call.fn = "from_filename"
    /\ provider_call.args.rebuilt = <<>>
    /\ provider_call.result.exc = ""
    /\ provider_call' =
          [fn |-> "to_filename",
           args |-> [provider_call.args EXCEPT !.rebuilt = to_filename(provider_call.args.w)],
           result |-> Returned(to_filename(provider_call.args.w))]
    /\ OtherThanCall

\* Distribution.from_filename(w.to_filename())
FromRebuiltFilename ==
    /\ provider_call.fn = "to_filename"
    /\ provider_call' =
          [provider_call EXCEPT !.fn = "from_filename",
                                !.result = from_filename(provider_call.args.rebuilt)]
    /\ OtherThanCall

FilenameNext == FromFilename \/ ToFilename \/ FromRebuiltFilename

FilenameSpec == FilenameInit /\ [][FilenameNext]_vars

\* The filename of w was rebuilt and parsed again.
Reparsed == provider_call.fn = "from_filename" /\ provider_call.args.rebuilt # <<>>

\* C22: parsing the filename rebuilt from a wheel or an sdist that was itself
\* parsed from a filename yields a distribution with the same name, version,
\* build and tag set, and the same extension for an sdist.
C22_FilenameRoundTrip ==
    Reparsed =>
       /\ provider_call.result.exc = ""
       /\ provider_call.result.value.class = provider_call.args.w.class
       /\ provider_call.result.value.name = provider_call.args.w.name
       /\ provider_call.result.value.version = provider_call.args.w.version
       /\ provider_call.result.value.build = provider_call.args.w.build
       /\ provider_call.result.value.tags = provider_call.args.w.tags
       /\ provider_call.result.value.extension = provider_call.args.w.extension

\* A wheel was parsed from the filename given, and the n-th part of that
\* filename between hyphens, the directory left out.
ParsedWheel ==
    /\ provider_call.fn = "from_filename"
    /\ provider_call.args.rebuilt = <<>>
    /\ provider_call.result.exc = ""
    /\ provider_call.result.value.class = "Wheel"

Part(n) == split(basename(strip_slashes(provider_call.args.filename)), "-")[n]

\* C23 as stated: the name of a wheel parsed from a filename is the name part
\* with every underscore turned into a hyphen, and its version is the version
\* part with %2B decoded and its underscores left as they are.
C23_VersionUnderscoresKept ==
    ParsedWheel =>
       /\ provider_call.result.value.name = replace(Part(1), "_", "-")
       /\ provider_call.result.value.version = unquote(Part(2))

\* C23: the name of a wheel parsed from a filename is the name part with every
\* underscore turned into a hyphen, and its version is the version part with
\* %2B decoded to + and every underscore turned into a hyphen as well.
C23_UnderscoresBecomeHyphens ==
    ParsedWheel =>
       /\ provider_call.result.value.name = replace(Part(1), "_", "-")
       /\ provider_call.result.value.version = replace(unquote(Part(2)), "_", "-")

C23_Witness ==
    /\ ParsedWheel
    /\ contains(Part(1), <<"_">>)
    /\ contains(Part(2), <<"_">>)
    /\ provider_call.result.value.version = <<"1", ".", "0", "-", "1">>

\* ---------------------------------------------------------------------------
\* The output formatters (resolution.py): format_resolution, format_pdt_tree and
\* get_package_list on the Result of resolve().
\* ---------------------------------------------------------------------------
\* The depth at which Python gives up a recursion (sys.getrecursionlimit());
\* it is above the depth of every tree over the keys of the model.
RecursionLimit == 5

\* graph.iter_children(key) and graph.iter_parents(key)
iter_children(graph, key) == {e[2] : e \in {x \in graph.edges : x[1] = key}}

iter_parents(graph, key) == {e[1] : e \in {x \in graph.edges : x[2] = key}}

\* str(mapping[key].version)
VersionOf(mapping, key) ==
    mapping[CHOOSE i \in 1..Len(mapping) : mapping[i].key = key].candidate.version

\* str(PackageURL(type="pypi", name=name, version=version)) for an identifier
\* passed as the name: the scheme and type, the name percent-quoted ("[" and
\* "]" of an extras suffix as %5B and %5D), "@" and the version.
PackageURL(name, version) ==
    <<"pkg:pypi/",
      IF name.extras = {} THEN <<name.name>> ELSE <<name.name, "%5B", name.extras, "%5D">>,
      "@", version>>

\* String order of two purls of the model: "%" sorts before "@", so that
\* pkg:pypi/a%5Bx%5D@2 comes before pkg:pypi/a@2.
PurlLess(p, q) ==
    \/ NameRank[p[2][1]] < NameRank[q[2][1]]
    \/ /\ p[2][1] = q[2][1]
       /\ \/ Len(p[2]) > Len(q[2])
          \/ Len(p[2]) = Len(q[2]) /\ p[4] < q[4]

RECURSIVE SortedPurls(_)
\* sorted(purls) of a set of purls
SortedPurls(S) ==
    IF S = {} THEN <<>>
    ELSE <<CHOOSE p \in S : \A q \in S \ {p} : PurlLess(p, q)>>
         \o SortedPurls(S \ {CHOOSE p \in S : \A q \in S \ {p} : PurlLess(p, q)})

RECURSIVE SortedKeys(_)
\* sorted(keys) of a set of identifiers
SortedKeys(S) ==
    IF S = {} THEN <<>>
    ELSE <<CHOOSE k \in S : \A j \in S \ {k} : IdentifierLess(k, j)>>
         \o SortedKeys(S \ {CHOOSE k \in S : \A j \in S \ {k} : IdentifierLess(k, j)})

\* The keys of the mapping whose only parent is None.
get_all_srcs(mapping, graph) ==
    {name \in MappingKeys(mapping) : iter_parents(graph, name) = {RootKey}}

\* The result of a list of recursive calls: the first exception, or the values.
Collected(returns) ==
    IF \E i \in 1..Len(returns) : returns[i].exc # "" THEN Raised("RecursionError")
    ELSE Returned([i \in 1..Len(returns) |-> returns[i].value])

RECURSIVE pdt_dfs(_, _, _, _)
\* pdt_dfs(mapping, graph, src) at the given depth of the recursion; the
\* dependencies are sorted by key.
pdt_dfs(mapping, graph, src, depth) ==
    IF depth > RecursionLimit THEN Raised("RecursionError")
    ELSE LET children == SortedKeys(iter_children(graph, src))
             dependencies == Collected([i \in 1..Len(children) |->
                                          pdt_dfs(mapping, graph, children[i], depth + 1)])
         IN  IF dependencies.exc # "" THEN dependencies
             ELSE Returned([key |-> src, package_name |-> src,
                            installed_version |-> VersionOf(mapping, src),
                            dependencies |-> dependencies.value])

format_pdt_tree(results) ==
    LET srcs == SortedKeys(get_all_srcs(results.mapping, results.graph))
    IN  Collected([i \in 1..Len(srcs) |-> pdt_dfs(results.mapping, results.graph, srcs[i], 1)])

RECURSIVE dfs(_, _, _, _)
\* dfs(mapping, graph, src) at the given depth of the recursion; the
\* dependencies are sorted by package.
dfs(mapping, graph, src, depth) ==
    IF depth > RecursionLimit THEN Raised("RecursionError")
    ELSE LET children ==
                SortedPurls({PackageURL(c, VersionOf(mapping, c)) :
                                c \in iter_children(graph, src)})
             child(p) == CHOOSE c \in iter_children(graph, src) :
                            PackageURL(c, VersionOf(mapping, c)) = p
             dependencies == Collected([i \in 1..Len(children) |->
                                          dfs(mapping, graph, child(children[i]), depth + 1)])
         IN  IF dependencies.exc # "" THEN dependencies
             ELSE Returned([package |-> PackageURL(src, VersionOf(mapping, src)),
                            dependencies |-> dependencies.value])

\* format_resolution(results, as_tree=True)
TreeResolution(results) ==
    LET srcs == SortedPurls({PackageURL(s, VersionOf(results.mapping, s)) :
                                s \in get_all_srcs(results.mapping, results.graph)})
        src(p) == CHOOSE s \in get_all_srcs(results.mapping, results.graph) :
                     PackageURL(s, VersionOf(results.mapping, s)) = p
    IN  Collected([i \in 1..Len(srcs) |->
                     dfs(results.mapping, results.graph, src(srcs[i]), 1)])

\* format_resolution(results, as_tree=False)
FlatResolution(results) ==
    LET parents == SortedPurls({PackageURL(p, VersionOf(results.mapping, p)) :
                                   p \in MappingKeys(results.mapping)})
        parent(p) == CHOOSE k \in MappingKeys(results.mapping) :
                        PackageURL(k, VersionOf(results.mapping, k)) = p
    IN  Returned([i \in 1..Len(parents) |->
                    [package |-> parents[i],
                     dependencies |->
                        SortedPurls({PackageURL(d, VersionOf(results.mapping, d)) :
                                        d \in iter_children(results.graph, parent(parents[i]))})]])

format_resolution(results, as_tree) ==
    IF as_tree THEN TreeResolution(results) ELSE FlatResolution(results)

get_package_list(results) ==
    SortedPurls({PackageURL(p, VersionOf(results.mapping, p)) :
                    p \in MappingKeys(results.mapping)}
                \cup UNION {{PackageURL(d, VersionOf(results.mapping, d)) :
                                d \in iter_children(results.graph, p)} :
                            p \in MappingKeys(results.mapping)})

\* The Result resolve() returns for the direct requirements `direct` when each
\* package requires the packages of `requires` and every requirement is
\* satisfied by the version pinned: a key per identifier required, an edge
\* from None to each direct requirement and from each key to what it requires
\* (for a key with extras, the package itself and what the package requires).
PinnedVersion == [n \in Names |-> IF n = "b" THEN 4 ELSE 2]

RequiredBy(requires, key) ==
    {Identifier(n, NoExtras) : n \in requires[key.name]}
    \cup (IF key.extras = {} THEN {} ELSE {Identifier(key.name, NoExtras)})

RECURSIVE Required(_, _)
Required(requires, keys) ==
    IF UNION {RequiredBy(requires, k) : k \in keys} \subseteq keys THEN keys
    ELSE Required(requires, keys \cup UNION {RequiredBy(requires, k) : k \in keys})

ResultOf(requires, direct) ==
    Result([i \in 1..Len(SortedKeys(Required(requires, direct))) |->
              [key |-> SortedKeys(Required(requires, direct))[i],
               candidate |-> Candidate(SortedKeys(Required(requires, direct))[i].name,
                                       PinnedVersion[SortedKeys(Required(requires, direct))[i].name],
                                       SortedKeys(Required(requires, direct))[i].extras)]],
           [vertices |-> {RootKey} \cup Required(requires, direct),
            edges |-> {<<RootKey, d>> : d \in direct}
                      \cup UNION {{<<k, r>> : r \in RequiredBy(requires, k)} :
                                     k \in Required(requires, direct)}],
           EmptyDict)

Resolutions ==
    {ResultOf(requires, direct) :
        requires \in {f \in [Names -> SUBSET Names] : \A n \in Names : n \notin f[n]},
        direct \in SUBSET {Identifier("a", NoExtras), Identifier("b", NoExtras),
                           Identifier("a", {"x"})} \ {{}}}

FormatInit ==
    /\ provider_call \in
          {[fn |-> "", args |-> [results |-> results, as_tree |-> as_tree,
                                 pdt_output |-> pdt_output],
            result |-> <<>>] :
              results \in Resolutions, as_tree \in BOOLEAN, pdt_output \in BOOLEAN}
    /\ repos = <<>>
    /\ SetupIdle /\ MemoIdle /\ RepositoryIdle /\ PhaseIdle
    /\ ResolverIdle /\ CacheIdle /\ FetchIdle /\ ConcurrentIdle /\ ApiIdle

\* The end of get_resolved_dependencies: the package list, then the output
\* in the format asked for.
FormatOutput(formatted, package_list) ==
    IF formatted.exc # "" THEN formatted
    ELSE Returned([resolution |-> formatted.value, package_list |-> package_list])

Format ==
    /\ provider_call.fn = ""
    /\ provider_call' =
          [provider_call EXCEPT
              !.fn = "get_resolved_dependencies",
              !.result =
                 FormatOutput(IF provider_call.args.pdt_output
                              THEN format_pdt_tree(provider_call.args.results)
                              ELSE format_resolution(provider_call.args.results,
                                                     provider_call.args.as_tree),
                              get_package_list(provider_call.args.results))]
    /\ OtherThanCall

FormatSpec == FormatInit /\ [][Format]_vars

Formatted == provider_call.fn = "get_resolved_dependencies"

RECURSIVE TreeKeys(_)
\* The keys of a list of pipdeptree nodes and of their descendants.
TreeKeys(nodes) ==
    UNION {{nodes[i].key} \cup TreeKeys(nodes[i].dependencies) : i \in 1..Len(nodes)}

\* C24: in pipdeptree mode the keys of the nested output, roots and
\* descendants together, are the pinned identifiers of the mapping.
C24_TreeHoldsEveryPin ==
    Formatted /\ provider_call.args.pdt_output /\ provider_call.result.exc = "" =>
       TreeKeys(provider_call.result.value.resolution)
          = MappingKeys(provider_call.args.results.mapping)

\* The purls of the flat output: the packages and their dependencies.
FlatPurls(resolution) ==
    {resolution[i].package : i \in 1..Len(resolution)}
    \cup UNION {{resolution[i].dependencies[j] : j \in 1..Len(resolution[i].dependencies)} :
                   i \in 1..Len(resolution)}

\* C25: every purl of the flat output and of the package list is
\* pkg:pypi/{name}@{version} on the bare canonicalized name of a package, also
\* for an identifier pinned with extras.
C25_PurlsOnBareNames ==
    Formatted /\ ~provider_call.args.pdt_output /\ ~provider_call.args.as_tree =>
       \A p \in FlatPurls(provider_call.result.value.resolution)
                \cup {provider_call.result.value.package_list[i] :
                         i \in 1..Len(provider_call.result.value.package_list)} :
          \E n \in Names : p = <<"pkg:pypi/", <<canonicalize_name(n)>>, "@", PinnedVersion[n]>>

\* C30: format_pdt_tree and format_resolution, flat and as a tree, return on
\* every result, also when the graph has a cycle among the pinned identifiers.
C30_FormattersReturn ==
    Formatted => provider_call.result.exc = ""

\* ---------------------------------------------------------------------------
\* Compatibility tags (utils_pypi.py): Environment.from_pyver_and_os,
\* Environment.tags and PypiPackage.get_supported_wheels.  A tag is
\* <<interpreter, abi, platform>>; an interpreter is <<"cp", 3, 11>> for cp311,
\* <<"py", 3, 11>> for py311 and <<"py", 3>> for py3.
\* ---------------------------------------------------------------------------
ABIS_BY_PYTHON_VERSION ==
    [python_version \in {"310", "311"} |->
        IF python_version = "310" THEN <<"cp310", "cp310m", "abi3">>
        ELSE <<"cp311", "cp311m", "abi3">>]

\* PLATFORMS_BY_OS[operating_system] for linux and windows
PlatformsOf(operating_system_) ==
    IF operating_system_ = "linux"
    THEN <<"linux_x86_64", "manylinux1_x86_64", "manylinux2010_x86_64", "manylinux2014_x86_64",
           "manylinux2014_aarch6", "musllinux_1_2_x86_64", "manylinux_2_33_aarch64">>
    ELSE <<"win_amd64">>

\* Environment.from_pyver_and_os
from_pyver_and_os(python_version, operating_system_) ==
    [python_version |-> python_version, implementation |-> "cp",
     abis |-> ABIS_BY_PYTHON_VERSION[python_version],
     platforms |-> PlatformsOf(operating_system_),
     operating_system |-> operating_system_]

\* The minor version of "310" and "311".
MinorOf(python_version) == IF python_version = "310" THEN 10 ELSE 11

\* The platforms a platform of the environment stands for: manylinux2014 and
\* manylinux2010 on x86_64 include the older manylinux platforms.
_get_custom_platforms(arch) ==
    CASE arch = "manylinux2014_x86_64" ->
            {"manylinux2014_x86_64", "manylinux2010_x86_64", "manylinux1_x86_64"}
      [] arch = "manylinux2010_x86_64" -> {"manylinux2010_x86_64", "manylinux1_x86_64"}
      [] OTHER -> {arch}

\* get_supported(version, impl="cp", platforms, abis): the tags of the
\* interpreter with each abi of the environment, with abi3 and with none, of
\* the older interpreters with abi3, and of py3, py3N, ... with none, each on
\* every platform; then the interpreter and py3, py3N, ... as none-any.
get_supported(version, platforms, abis) ==
    LET expanded == UNION {_get_custom_platforms(platforms[i]) : i \in 1..Len(platforms)}
        interpreter == <<"cp", 3, MinorOf(version)>>
        generic == {<<"py", 3>>} \cup {<<"py", 3, minor>> : minor \in 0..MinorOf(version)}
    IN  {<<interpreter, abi, platform>> :
            abi \in {abis[i] : i \in 1..Len(abis)} \cup {"abi3", "none"}, platform \in expanded}
        \cup {<<<<"cp", 3, minor>>, "abi3", platform>> :
                 minor \in 2..(MinorOf(version) - 1), platform \in expanded}
        \cup {<<py, "none", platform>> : py \in generic, platform \in expanded \cup {"any"}}
        \cup {<<interpreter, "none", "any">>}

\* Environment.tags
EnvironmentTags(environment) ==
    get_supported(environment.python_version, environment.platforms, environment.abis)

\* Wheel.is_supported_by_tags
is_supported_by_tags(wheel, tags) == wheel.tags \cap tags # {}

\* PypiPackage.get_supported_wheels
get_supported_wheels(wheels, environment) ==
    SelectSeq(wheels, LAMBDA wheel : is_supported_by_tags(wheel, EnvironmentTags(environment)))

\* The wheels of a package: one or two wheels, each with one python tag, one
\* abi tag and one platform tag.
WheelPlatforms ==
    {"linux_x86_64", "manylinux1_x86_64", "manylinux2010_x86_64", "manylinux2014_x86_64",
     "manylinux_2_27_x86_64", "manylinux_2_28_x86_64", "win_amd64", "any"}

TaggedWheels ==
    {[tags |-> Tags(<<python>>, <<abi>>, <<platform>>)] :
        python \in {<<"cp", 3, 11>>, <<"cp", 3, 10>>, <<"py", 3>>},
        abi \in {"cp311", "cp310", "abi3", "none"},
        platform \in WheelPlatforms}

PureWheel == [tags |-> Tags(<<<<"py", 3>>>>, <<"none">>, <<"any">>)]

TagInit ==
    /\ provider_call \in
          {[fn |-> "",
            args |-> [wheels |-> wheels, python_version |-> python_version,
                      operating_system |-> operating_system_],
            result |-> <<>>] :
              wheels \in {<<w>> : w \in TaggedWheels} \cup {<<w, PureWheel>> : w \in TaggedWheels},
              python_version \in {"310", "311"},
              operating_system_ \in {"linux", "windows"}}
    /\ repos = <<>>
    /\ SetupIdle /\ MemoIdle /\ RepositoryIdle /\ PhaseIdle
    /\ ResolverIdle /\ CacheIdle /\ FetchIdle /\ ConcurrentIdle /\ ApiIdle

\* list(pkg.get_supported_wheels(environment=env)) for the environment of the
\* python version and operating system.
GetSupportedWheels ==
    /\ provider_call.fn = ""
    /\ provider_call' =
          [provider_call EXCEPT
              !.fn = "get_supported_wheels",
              !.result = get_supported_wheels(
                            provider_call.args.wheels,
                            from_pyver_and_os(provider_call.args.python_version,
                                              provider_call.args.operating_system))]
    /\ OtherThanCall

TagSpec == TagInit /\ [][GetSupportedWheels]_vars

\* C27: for the environment of python 311 on linux, a cp311-cp311 wheel on any
\* of the platforms linux_x86_64, manylinux1_x86_64, manylinux2010_x86_64,
\* manylinux2014_x86_64, manylinux_2_27_x86_64 and manylinux_2_28_x86_64 is
\* among the supported wheels.
C27_LinuxWheelsSupported ==
    /\ provider_call.fn = "get_supported_wheels"
    /\ provider_call.args.python_version = "311"
    /\ provider_call.args.operating_system = "linux"
    =>
    \A platform \in {"linux_x86_64", "manylinux1_x86_64", "manylinux2010_x86_64",
                     "manylinux2014_x86_64", "manylinux_2_27_x86_64",
                     "manylinux_2_28_x86_64"} :
       provider_call.args.wheels[1].tags = {<<<<"cp", 3, 11>>, "cp311", platform>>} =>
          \E i \in 1..Len(provider_call.result) :
             provider_call.result[i] = provider_call.args.wheels[1]

\* --------------------------------------------- Phase A: gather_version_data

\* The names of the direct requirements, several of them naming one package.
DirectNames ==
    {<<"a">>, <<"a", "a">>, <<"a", "b">>, <<"a", "b", "a">>, <<"b", "a", "a">>}

\* A repository serving one page for every name, and the repositories of a
\* provider: none (the PyPI JSON API is asked), one or two.
Serving(page) == [n \in Names |-> page]

RepoLists ==
    {<<>>}
    \cup {<<Serving(p)>> : p \in {NotFetched, Listed({}), Listed({2})}}
    \cup {<<Serving(p), Serving(q)>> :
             p \in {NotFetched, Listed({2})}, q \in {Listed({}), Listed({2}), Listed({3})}}

\* asyncio.gather over get_version_data(requirement.name): no task has started.
GatheredVersionData(requirements) ==
    [i \in 1..Len(requirements) |->
        [name |-> requirements[i], pc |-> "pending", repo |-> 0, versions |-> <<>>]]

GatherInit ==
    /\ phase_pc = "A"
    /\ \E requirements \in DirectNames :
          tasks = [phase \in {"A"} |-> GatheredVersionData(requirements)]
    /\ versions_by_package = [n \in Names |-> <<>>]
    /\ repos \in RepoLists
    /\ packages = [r \in 1..Len(repos) |-> [n \in Names |-> {}]]
    /\ fetched_package_normalized_names = [r \in 1..Len(repos) |-> {}]
    /\ fetches = [r \in 1..Len(repos) |-> [n \in Names |-> 0]]
    /\ index = [n \in Names |-> {2, 3}]
    /\ metadata = <<>>
    /\ direct_dependencies = <<>>
    /\ operating_system = "linux"
    /\ ignore_errors = FALSE
    /\ max_rounds = 0
    /\ states = <<>>
    /\ round_index = 0
    /\ pc = "idle"
    /\ outcome = ""
    /\ result = NoResult
    /\ rejected = {}
    /\ discarded = {}
    /\ provider_call = NoCall
    /\ SetupIdle /\ MemoIdle
    /\ CacheIdle /\ FetchIdle /\ ConcurrentIdle /\ ApiIdle

OtherThanGather ==
    UNCHANGED <<resolverVars, cacheVars, fetchVars, concurrentVars, apiVars, repos, setupVars,
                provider_call, memoVars>>

\* _get_package_versions_map of repository r: whether the page is fetched.
FetchesPage(r, normalized_name, fetched_names) ==
    packages[r][normalized_name] = {} /\ normalized_name \notin fetched_names[r]

RECURSIVE ExtendFrom(_, _, _, _)
\* `for repo in self.repos: versions.extend(await ...)` of a task from
\* repository r on, up to the fetch it is suspended at or to its return: the
\* name joins the fetched names of a repository before its page is fetched,
\* and a repository that fetches nothing answers with the packages it holds.
ExtendFrom(name, versions, r, fetched_names) ==
    IF r > Len(repos)
    THEN [pc |-> "done", repo |-> 0, versions |-> versions, fetched_names |-> fetched_names]
    ELSE IF FetchesPage(r, normalize_name(name), fetched_names)
    THEN [pc |-> "fetch_links", repo |-> r, versions |-> versions,
          fetched_names |->
             [fetched_names EXCEPT ![r] = @ \cup {normalize_name(name)}]]
    ELSE ExtendFrom(name, versions \o SetToSeq(packages[r][normalize_name(name)]), r + 1,
                    fetched_names)

\* What a step of task i leaves: the task, the fetched names, and the list
\* stored in versions_by_package on return.
Stepped(i, step) ==
    /\ tasks' = [tasks EXCEPT !["A"][i] =
                    [name |-> @.name, pc |-> step.pc, repo |-> step.repo,
                     versions |-> step.versions]]
    /\ fetched_package_normalized_names' = step.fetched_names
    /\ fetches' = IF step.pc = "fetch_links"
                  THEN [fetches EXCEPT ![step.repo][normalize_name(tasks["A"][i].name)] = @ + 1]
                  ELSE fetches
    /\ versions_by_package' =
          IF step.pc = "done"
          THEN [versions_by_package EXCEPT ![tasks["A"][i].name] = step.versions]
          ELSE versions_by_package

\* The event loop runs the first step of the tasks in the order gather
\* created them: fill_versions_for_package returns the stored list if it is
\* not empty, and else runs up to its first awaited request.
VersionDataStart ==
    /\ phase_pc = "A"
    /\ \E i \in 1..Len(tasks["A"]) :
          /\ tasks["A"][i].pc = "pending"
          /\ \A j \in 1..(i - 1) : tasks["A"][j].pc # "pending"
          /\ \E name \in {tasks["A"][i].name} :
                IF versions_by_package[name] # <<>>
                THEN /\ tasks' = [tasks EXCEPT !["A"][i].pc = "done",
                                               !["A"][i].versions = versions_by_package[name]]
                     /\ UNCHANGED <<versions_by_package, fetched_package_normalized_names,
                                    fetches>>
                ELSE IF repos # <<>>
                THEN Stepped(i, ExtendFrom(name, <<>>, 1, fetched_package_normalized_names))
                ELSE /\ tasks' = [tasks EXCEPT !["A"][i].pc = "get_response_async"]
                     /\ UNCHANGED <<versions_by_package, fetched_package_normalized_names,
                                    fetches>>
    /\ UNCHANGED <<phase_pc, packages>>
    /\ OtherThanGather

\* The request of a suspended task has completed, every task having run its
\* first step: the repository stores the packages of a page it fetched (a
\* failed fetch is caught and stores nothing), the task extends its list and
\* goes on with the next repository.
VersionDataFetched ==
    /\ phase_pc = "A"
    /\ \A j \in 1..Len(tasks["A"]) : tasks["A"][j].pc # "pending"
    /\ \E i \in 1..Len(tasks["A"]) :
          /\ tasks["A"][i].pc = "fetch_links"
          /\ \E r \in {tasks["A"][i].repo}, name \in {tasks["A"][i].name} :
             \E page \in {repos[r][normalize_name(name)]} :
                /\ packages' = IF page.exc = ""
                               THEN [packages EXCEPT ![r][normalize_name(name)] = page.versions]
                               ELSE packages
                /\ Stepped(i, ExtendFrom(name,
                                         tasks["A"][i].versions
                                            \o SetToSeq(get_package_versions(page)),
                                         r + 1, fetched_package_normalized_names))
    /\ UNCHANGED phase_pc
    /\ OtherThanGather

\* The PyPI JSON API has answered a suspended task: the task extends its
\* list with the releases and stores it.
VersionDataAnswered ==
    /\ phase_pc = "A"
    /\ \A j \in 1..Len(tasks["A"]) : tasks["A"][j].pc # "pending"
    /\ \E i \in 1..Len(tasks["A"]) :
          /\ tasks["A"][i].pc = "get_response_async"
          /\ \E name \in {tasks["A"][i].name} :
             \E versions \in {tasks["A"][i].versions
                                \o _get_versions_for_package_from_pypi_json_api(name)} :
                /\ tasks' = [tasks EXCEPT !["A"][i].pc = "done",
                                          !["A"][i].versions = versions]
                /\ versions_by_package' = [versions_by_package EXCEPT ![name] = versions]
    /\ UNCHANGED <<phase_pc, packages, fetched_package_normalized_names, fetches>>
    /\ OtherThanGather

\* asyncio.run(gather_version_data()) returns when every task has returned.
VersionDataGathered ==
    /\ phase_pc = "A"
    /\ \A i \in 1..Len(tasks["A"]) : tasks["A"][i].pc = "done"
    /\ phase_pc' = "B"
    /\ UNCHANGED <<tasks, versions_by_package, repositoryVars>>
    /\ OtherThanGather

GatherNext ==
    VersionDataStart \/ VersionDataFetched \/ VersionDataAnswered \/ VersionDataGathered

GatherSpec == GatherInit /\ [][GatherNext]_vars

====
